---- MODULE Spec2Model ----
(***************************************************************************)
(* A model of the publication-date cascade of pubmed_mapper.py:            *)
(* Article.parse_pubdate and the twelve recognizers of PUBDATE_PARSERS.    *)
(*                                                                         *)
(* A text is a sequence of one-character strings, so that the regular      *)
(* expressions, str.isdigit, str.capitalize and int() are computed on the  *)
(* characters as Python computes them.  xpath('./X/text()') never yields   *)
(* an empty text node and every recognizer only tests "not text", so an    *)
(* absent child (extract_first gives None) is the empty sequence.          *)
(***************************************************************************)
EXTENDS Integers, Sequences, FiniteSets, TLC

VARIABLES pc, given, element, idx, called, pubdate, error,
          months, seasons, pubdate_parsers, affiliation_parsers,
          author_pc, author_given, author_element, author, author_by, author_error,
          batch_pc, command, articles, article_idx, outfile, mapped, batch_error,
          log

\* the call of Article.parse_pubdate in progress
date_vars == <<pc, given, element, idx, called, pubdate, error>>

\* the module-level tables MONTHS, SEASONS, PUBDATE_PARSERS, AFFILIATION_PARSERS
table_vars == <<months, seasons, pubdate_parsers, affiliation_parsers>>

\* the call of Author.parse_element in progress
author_vars == <<author_pc, author_given, author_element, author, author_by, author_error>>

\* the run of single_file or directory in progress
batch_vars == <<batch_pc, command, articles, article_idx, outfile, mapped, batch_error>>

\* what a call of Article.parse_pubdate has no assignment to
not_date_vars == <<table_vars, author_vars, batch_vars, log>>

\* what a call of Author.parse_element has no assignment to
not_author_vars == <<date_vars, table_vars, batch_vars>>

\* what the loop of single_file and directory has no assignment to
not_batch_vars == <<date_vars, author_vars>>

vars == <<date_vars, table_vars, author_vars, batch_vars, log>>

----------------------------------------------------------------------------
(* Characters and the str methods the recognizers call.                    *)

LowerAlpha == <<"a","b","c","d","e","f","g","h","i","j","k","l","m",
                "n","o","p","q","r","s","t","u","v","w","x","y","z">>

UpperAlpha == <<"A","B","C","D","E","F","G","H","I","J","K","L","M",
                "N","O","P","Q","R","S","T","U","V","W","X","Y","Z">>

DigitChars == <<"0","1","2","3","4","5","6","7","8","9">>

Range(f) == {f[i] : i \in DOMAIN f}

\* \d of the re module, on the characters of the model
Digit == Range(DigitChars)

\* [a-zA-Z]
Alpha == Range(LowerAlpha) \cup Range(UpperAlpha)

\* what str.strip() and int() treat as white space
Whitespace == {" ", "\n"}

DigitValue(c) == (CHOOSE i \in DOMAIN DigitChars : DigitChars[i] = c) - 1

ToUpper(c) ==
    IF c \in Range(LowerAlpha)
    THEN UpperAlpha[CHOOSE i \in DOMAIN LowerAlpha : LowerAlpha[i] = c]
    ELSE c

ToLower(c) ==
    IF c \in Range(UpperAlpha)
    THEN LowerAlpha[CHOOSE i \in DOMAIN UpperAlpha : UpperAlpha[i] = c]
    ELSE c

\* str.isdigit(): non-empty and every character a digit
isdigit(text) == text # <<>> /\ \A i \in DOMAIN text : text[i] \in Digit

\* the text looked up as it is written
capitalize_AsWritten(text) == text

\* str.capitalize(): first character upper-cased, the rest lower-cased
capitalize(text) ==
    [i \in DOMAIN text |-> IF i = 1 THEN ToUpper(text[i]) ELSE ToLower(text[i])]

RECURSIVE DigitsValue(_)
DigitsValue(text) ==
    IF text = <<>> THEN 0
    ELSE 10 * DigitsValue(SubSeq(text, 1, Len(text) - 1)) + DigitValue(text[Len(text)])

RECURSIVE LStrip(_)
LStrip(text) ==
    IF text # <<>> /\ text[1] \in Whitespace THEN LStrip(Tail(text)) ELSE text

RECURSIVE RStrip(_)
RStrip(text) ==
    IF text # <<>> /\ text[Len(text)] \in Whitespace
    THEN RStrip(SubSeq(text, 1, Len(text) - 1)) ELSE text

\* int(text): surrounding white space is dropped, one leading sign is read,
\* the rest must be digits; anything else raises ValueError (ok = FALSE).
int(text) ==
    LET s    == RStrip(LStrip(text))
        neg  == s # <<>> /\ s[1] = "-"
        body == IF neg THEN Tail(s) ELSE s
    IN  IF isdigit(body)
        THEN [ok |-> TRUE, val |-> IF neg THEN 0 - DigitsValue(body) ELSE DigitsValue(body)]
        ELSE [ok |-> FALSE, val |-> 0]

----------------------------------------------------------------------------
(* datetime.date: the constructor raises ValueError outside these ranges.  *)

MINYEAR == 1

MAXYEAR == 9999

IsLeap(y) == y % 4 = 0 /\ (y % 100 # 0 \/ y % 400 = 0)

DaysInMonth(y, m) ==
    IF m = 2 THEN (IF IsLeap(y) THEN 29 ELSE 28)
    ELSE IF m \in {4, 6, 9, 11} THEN 30 ELSE 31

ValidDate(y, m, d) ==
    /\ y \in MINYEAR..MAXYEAR
    /\ m \in 1..12
    /\ d \in 1..DaysInMonth(y, m)

----------------------------------------------------------------------------
(* The tables.                                                             *)

MONTHS ==
    (<<"J","a","n">> :> 1) @@ (<<"F","e","b">> :> 2) @@ (<<"M","a","r">> :> 3) @@
    (<<"A","p","r">> :> 4) @@ (<<"M","a","y">> :> 5) @@ (<<"J","u","n">> :> 6) @@
    (<<"J","u","l">> :> 7) @@ (<<"A","u","g">> :> 8) @@ (<<"S","e","p">> :> 9) @@
    (<<"S","e","p","t">> :> 9) @@ (<<"O","c","t">> :> 10) @@ (<<"N","o","v">> :> 11) @@
    (<<"D","e","c">> :> 12)

\* Fall and Autumn counted from September
SEASONS_AutumnSeptember ==
    (<<"S","p","r","i","n","g">> :> 4) @@ (<<"S","u","m","m","e","r">> :> 7) @@
    (<<"F","a","l","l">> :> 9) @@ (<<"A","u","t","u","m","n">> :> 9) @@
    (<<"W","i","n","t","e","r">> :> 1)

SEASONS ==
    (<<"S","p","r","i","n","g">> :> 4) @@ (<<"S","u","m","m","e","r">> :> 7) @@
    (<<"F","a","l","l">> :> 10) @@ (<<"A","u","t","u","m","n">> :> 10) @@
    (<<"W","i","n","t","e","r">> :> 1)

default_year == 1

default_month == 1

\* a default day other than the first of the month
default_day_Second == 1 + 1

default_day == 1

----------------------------------------------------------------------------
(* What a recognizer call gives: None, a date, or an exception raised.     *)

NoMatch == [kind |-> "None", year |-> 0, month |-> 0, day |-> 0, exc |-> ""]

Raise(exc) == [kind |-> "raise", year |-> 0, month |-> 0, day |-> 0, exc |-> exc]

\* date(year=, month=, day=): the object, or ValueError
date(y, m, d) ==
    IF ValidDate(y, m, d)
    THEN [kind |-> "date", year |-> y, month |-> m, day |-> d, exc |-> ""]
    ELSE Raise("ValueError")

----------------------------------------------------------------------------
(* The compiled patterns.  Every pattern of the recognizers is a fixed     *)
(* sequence of character-class runs between ^ and $, and each run is       *)
(* followed by a character outside its class or by $, so the greedy run    *)
(* is the only way to match and no backtracking is needed.                 *)

Unbounded == 0 - 1

\* \d{lo,hi}, captured as group name ("" for no group)
D(lo, hi, name) == [cls |-> Digit, lo |-> lo, hi |-> hi, name |-> name]

\* [a-zA-Z]{lo,hi}
A(lo, hi, name) == [cls |-> Alpha, lo |-> lo, hi |-> hi, name |-> name]

\* a literal character
Lit(c) == [cls |-> {c}, lo |-> 1, hi |-> 1, name |-> ""]

NoGroups == [year |-> <<>>, month_text |-> <<>>, day |-> <<>>, season_text |-> <<>>]

RECURSIVE RunLen(_, _, _, _)
RunLen(s, pos, cls, hi) ==
    IF pos <= Len(s) /\ hi # 0 /\ s[pos] \in cls
    THEN 1 + RunLen(s, pos + 1, cls, hi - 1)
    ELSE 0

\* $ without re.MULTILINE: the end of the string, or just before a final newline
AtEnd(s, pos) == pos = Len(s) + 1 \/ (pos = Len(s) /\ s[pos] = "\n")

RECURSIVE MatchFrom(_, _, _, _, _)
MatchFrom(pat, k, s, pos, groups) ==
    IF k > Len(pat)
    THEN [matched |-> AtEnd(s, pos), groups |-> groups]
    ELSE LET it == pat[k]
             n  == RunLen(s, pos, it.cls, it.hi)
         IN  IF n < it.lo
             THEN [matched |-> FALSE, groups |-> groups]
             ELSE MatchFrom(pat, k + 1, s, pos + n,
                            IF it.name = "" THEN groups
                            ELSE [groups EXCEPT ![it.name] = SubSeq(s, pos, pos + n - 1)])

\* pattern.search(text) for a pattern that starts with ^
search(pat, text) == MatchFrom(pat, 1, text, 1, NoGroups)

\* ^(?P<year>\d{4}$)
pattern_YearOnly == << D(4, 4, "year") >>

\* ^(?P<year>\d{4}) (?P<month_text>[a-zA-Z]{3})-[a-zA-Z]{3}$
pattern_MonthRange ==
    << D(4, 4, "year"), Lit(" "), A(3, 3, "month_text"), Lit("-"), A(3, 3, "") >>

\* ^(?P<year>\d{4}) (?P<month_text>[a-zA-Z]{3}) (?P<day>\d{1,2})-\d{1,2}$
pattern_DayRange ==
    << D(4, 4, "year"), Lit(" "), A(3, 3, "month_text"), Lit(" "),
       D(1, 2, "day"), Lit("-"), D(1, 2, "") >>

\* ^(?P<year>\d{4}) (?P<month_text>[a-zA-Z]{3})-\d{4} [a-zA-Z]{3}$
pattern_MonthRangeCrossYear ==
    << D(4, 4, "year"), Lit(" "), A(3, 3, "month_text"), Lit("-"),
       D(4, 4, ""), Lit(" "), A(3, 3, "") >>

\* ^(?P<year>\d{4})-\d{4}[ a-zA-Z\-]*$ : a year range that also takes what follows it
pattern_RangeYear_AnyTail ==
    << D(4, 4, "year"), Lit("-"), D(4, 4, ""),
       [cls |-> Alpha \cup {" ", "-"}, lo |-> 0, hi |-> Unbounded, name |-> ""] >>

\* ^(?P<year>\d{4})-\d{4}$
pattern_RangeYear == << D(4, 4, "year"), Lit("-"), D(4, 4, "") >>

\* the day group put on the second endpoint
pattern_MonthDayRange_EndDay ==
    << D(4, 4, "year"), Lit(" "), A(3, 3, "month_text"), Lit(" "),
       D(1, 2, ""), Lit("-"), A(3, 3, ""), Lit(" "), D(1, 2, "day") >>

\* ^(?P<year>\d{4}) (?P<month_text>[a-zA-Z]{3}) (?P<day>\d{1,2})-[a-zA-Z]{3} \d{1,2}$
pattern_MonthDayRange ==
    << D(4, 4, "year"), Lit(" "), A(3, 3, "month_text"), Lit(" "),
       D(1, 2, "day"), Lit("-"), A(3, 3, ""), Lit(" "), D(1, 2, "") >>

\* ^(?P<year>\d{4})-\d{4} (?P<season_text>[a-zA-Z\-]+)$ : a season text that
\* may hold hyphens
pattern_YearRangeWithSeason_Hyphenated ==
    << D(4, 4, "year"), Lit("-"), D(4, 4, ""), Lit(" "),
       [cls |-> Alpha \cup {"-"}, lo |-> 1, hi |-> Unbounded, name |-> "season_text"] >>

\* ^(?P<year>\d{4})-\d{4} (?P<season_text>[a-zA-Z]+)$
pattern_YearRangeWithSeason ==
    << D(4, 4, "year"), Lit("-"), D(4, 4, ""), Lit(" "),
       A(1, Unbounded, "season_text") >>

\* ^(?P<year>\d{4})-\d{4} (?P<season_text>[a-zA-Z]+)-[a-zA-Z]+$
pattern_YearSeasonRange ==
    << D(4, 4, "year"), Lit("-"), D(4, 4, ""), Lit(" "),
       A(1, Unbounded, "season_text"), Lit("-"), A(1, Unbounded, "") >>

----------------------------------------------------------------------------
(* The recognizers: each __call__, on the PubDate element's child texts.   *)
(* Python evaluates the month or season lookup before the date() call and  *)
(* the arguments of date() from left to right, so a KeyError of the table  *)
(* comes before a ValueError of int() or of date().                        *)

PubdateParserYearMonthDay(el) ==
    LET year_text  == el.Year
        month_text == el.Month
        day_text   == el.Day
    IN  IF ~(year_text # <<>> /\ month_text # <<>> /\ day_text # <<>>) THEN NoMatch
        ELSE IF ~isdigit(month_text) /\ capitalize(month_text) \notin DOMAIN months
             THEN Raise("KeyError")
        ELSE IF ~int(year_text).ok \/ ~int(day_text).ok THEN Raise("ValueError")
        ELSE date(int(year_text).val,
                  IF isdigit(month_text) THEN int(month_text).val
                  ELSE months[capitalize(month_text)],
                  int(day_text).val)

PubdateParserYearMonth(el) ==
    LET year_text  == el.Year
        month_text == el.Month
    IN  IF ~(year_text # <<>> /\ month_text # <<>>) THEN NoMatch
        ELSE IF ~isdigit(month_text) /\ capitalize(month_text) \notin DOMAIN months
             THEN Raise("KeyError")
        ELSE IF ~int(year_text).ok THEN Raise("ValueError")
        ELSE date(int(year_text).val,
                  IF isdigit(month_text) THEN int(month_text).val
                  ELSE months[capitalize(month_text)],
                  default_day)

\* the season text is looked up as it is written, without capitalize()
PubdateParserYearSeason(el) ==
    LET year_text   == el.Year
        season_text == el.Season
    IN  IF ~(year_text # <<>> /\ season_text # <<>>) THEN NoMatch
        ELSE IF ~int(year_text).ok THEN Raise("ValueError")
        ELSE IF season_text \notin DOMAIN seasons THEN Raise("KeyError")
        ELSE date(int(year_text).val, seasons[season_text], default_day)

\* a missing Year replaced by default_year instead of declining
PubdateParserYearOnly_DefaultYear(el) ==
    LET year_text == el.Year
    IN  IF year_text = <<>> THEN date(default_year, default_month, default_day)
        ELSE IF ~int(year_text).ok THEN Raise("ValueError")
        ELSE date(int(year_text).val, default_month, default_day)

PubdateParserYearOnly(el) ==
    LET year_text == el.Year
    IN  IF year_text = <<>> THEN NoMatch
        ELSE IF ~int(year_text).ok THEN Raise("ValueError")
        ELSE date(int(year_text).val, default_month, default_day)

PubdateParserMedlineDateYearOnly(el) ==
    LET medline_date_text == el.MedlineDate
        match == search(pattern_YearOnly, medline_date_text)
    IN  IF medline_date_text = <<>> THEN NoMatch
        ELSE IF ~match.matched THEN NoMatch
        ELSE date(int(match.groups.year).val, default_month, default_day)

PubdateParserMedlineDateMonthRange(el) ==
    LET medline_date_text == el.MedlineDate
        match == search(pattern_MonthRange, medline_date_text)
        key   == capitalize(match.groups.month_text)
    IN  IF medline_date_text = <<>> THEN NoMatch
        ELSE IF ~match.matched THEN NoMatch
        ELSE IF key \notin DOMAIN months THEN Raise("KeyError")
        ELSE date(int(match.groups.year).val, months[key], default_day)

PubdateParserMedlineDateDayRange(el) ==
    LET medline_date_text == el.MedlineDate
        match == search(pattern_DayRange, medline_date_text)
        key   == capitalize(match.groups.month_text)
    IN  IF medline_date_text = <<>> THEN NoMatch
        ELSE IF ~match.matched THEN NoMatch
        ELSE IF key \notin DOMAIN months THEN Raise("KeyError")
        ELSE date(int(match.groups.year).val, months[key], int(match.groups.day).val)

PubdateParserMedlineDateMonthRangeCrossYear(el) ==
    LET medline_date_text == el.MedlineDate
        match == search(pattern_MonthRangeCrossYear, medline_date_text)
        key   == capitalize(match.groups.month_text)
    IN  IF medline_date_text = <<>> THEN NoMatch
        ELSE IF ~match.matched THEN NoMatch
        ELSE IF key \notin DOMAIN months THEN Raise("KeyError")
        ELSE date(int(match.groups.year).val, months[key], default_day)

PubdateParserMedlineDateRangeYear(el) ==
    LET medline_date_text == el.MedlineDate
        match == search(pattern_RangeYear, medline_date_text)
    IN  IF medline_date_text = <<>> THEN NoMatch
        ELSE IF ~match.matched THEN NoMatch
        ELSE date(int(match.groups.year).val, default_month, default_day)

PubdateParserMedlineDateMonthDayRange(el) ==
    LET medline_date_text == el.MedlineDate
        match == search(pattern_MonthDayRange, medline_date_text)
        key   == capitalize(match.groups.month_text)
    IN  IF medline_date_text = <<>> THEN NoMatch
        ELSE IF ~match.matched THEN NoMatch
        ELSE IF key \notin DOMAIN months THEN Raise("KeyError")
        ELSE date(int(match.groups.year).val, months[key], int(match.groups.day).val)

PubdateParserMedlineDateYearRangeWithSeason(el) ==
    LET medline_date_text == el.MedlineDate
        match == search(pattern_YearRangeWithSeason, medline_date_text)
        season_text == capitalize(match.groups.season_text)
    IN  IF medline_date_text = <<>> THEN NoMatch
        ELSE IF ~match.matched THEN NoMatch
        ELSE IF season_text \notin DOMAIN seasons THEN Raise("KeyError")
        ELSE date(int(match.groups.year).val, seasons[season_text], default_day)

PubdateParserMedlineDateYearSeasonRange(el) ==
    LET medline_date_text == el.MedlineDate
        match == search(pattern_YearSeasonRange, medline_date_text)
        season_text == capitalize(match.groups.season_text)
    IN  IF medline_date_text = <<>> THEN NoMatch
        ELSE IF ~match.matched THEN NoMatch
        ELSE IF season_text \notin DOMAIN seasons THEN Raise("KeyError")
        ELSE date(int(match.groups.year).val, seasons[season_text], default_day)

\* the list with PubdateParserYearOnly ahead of the other Year recognizers
PUBDATE_PARSERS_YearOnlyFirst ==
    << "PubdateParserYearOnly",
       "PubdateParserYearMonthDay",
       "PubdateParserYearMonth",
       "PubdateParserYearSeason",
       "PubdateParserMedlineDateYearOnly",
       "PubdateParserMedlineDateMonthRange",
       "PubdateParserMedlineDateDayRange",
       "PubdateParserMedlineDateMonthRangeCrossYear",
       "PubdateParserMedlineDateRangeYear",
       "PubdateParserMedlineDateMonthDayRange",
       "PubdateParserMedlineDateYearRangeWithSeason",
       "PubdateParserMedlineDateYearSeasonRange" >>

\* the list with the MedlineDate recognizers ahead of the structured ones
PUBDATE_PARSERS_MedlineFirst ==
    << "PubdateParserMedlineDateYearOnly",
       "PubdateParserMedlineDateMonthRange",
       "PubdateParserMedlineDateDayRange",
       "PubdateParserMedlineDateMonthRangeCrossYear",
       "PubdateParserMedlineDateRangeYear",
       "PubdateParserMedlineDateMonthDayRange",
       "PubdateParserMedlineDateYearRangeWithSeason",
       "PubdateParserMedlineDateYearSeasonRange",
       "PubdateParserYearMonthDay",
       "PubdateParserYearMonth",
       "PubdateParserYearSeason",
       "PubdateParserYearOnly" >>

PUBDATE_PARSERS ==
    << "PubdateParserYearMonthDay",
       "PubdateParserYearMonth",
       "PubdateParserYearSeason",
       "PubdateParserYearOnly",
       "PubdateParserMedlineDateYearOnly",
       "PubdateParserMedlineDateMonthRange",
       "PubdateParserMedlineDateDayRange",
       "PubdateParserMedlineDateMonthRangeCrossYear",
       "PubdateParserMedlineDateRangeYear",
       "PubdateParserMedlineDateMonthDayRange",
       "PubdateParserMedlineDateYearRangeWithSeason",
       "PubdateParserMedlineDateYearSeasonRange" >>

\* parser(pubdate_element) for the instance of the named class
CallParser(parser, el) ==
    CASE parser = "PubdateParserYearMonthDay" -> PubdateParserYearMonthDay(el)
      [] parser = "PubdateParserYearMonth" -> PubdateParserYearMonth(el)
      [] parser = "PubdateParserYearSeason" -> PubdateParserYearSeason(el)
      [] parser = "PubdateParserYearOnly" -> PubdateParserYearOnly(el)
      [] parser = "PubdateParserMedlineDateYearOnly" -> PubdateParserMedlineDateYearOnly(el)
      [] parser = "PubdateParserMedlineDateMonthRange" -> PubdateParserMedlineDateMonthRange(el)
      [] parser = "PubdateParserMedlineDateDayRange" -> PubdateParserMedlineDateDayRange(el)
      [] parser = "PubdateParserMedlineDateMonthRangeCrossYear" ->
             PubdateParserMedlineDateMonthRangeCrossYear(el)
      [] parser = "PubdateParserMedlineDateRangeYear" -> PubdateParserMedlineDateRangeYear(el)
      [] parser = "PubdateParserMedlineDateMonthDayRange" ->
             PubdateParserMedlineDateMonthDayRange(el)
      [] parser = "PubdateParserMedlineDateYearRangeWithSeason" ->
             PubdateParserMedlineDateYearRangeWithSeason(el)
      [] parser = "PubdateParserMedlineDateYearSeasonRange" ->
             PubdateParserMedlineDateYearSeasonRange(el)

----------------------------------------------------------------------------
(* The PubDate elements handed to parse_pubdate.  An element is built from *)
(* a description src: either its five child texts as given (form "fields") *)
(* or a MedlineDate written in one of the free-text forms from its parts.  *)

\* numeric Month texts are the numerals of 0..MaxMonthNum
MaxMonthNum == 13

\* numeric Day texts go up to MaxDayNum
MaxDayNum == 32

Absent == <<>>

RECURSIVE Numeral(_)
Numeral(n) ==
    IF n < 10 THEN <<DigitChars[n + 1]>>
    ELSE Append(Numeral(n \div 10), DigitChars[(n % 10) + 1])

RECURSIVE Pad(_, _)
Pad(text, width) == IF Len(text) >= width THEN text ELSE Pad(<<"0">> \o text, width)

Upper(text) == [i \in DOMAIN text |-> ToUpper(text[i])]

Lower(text) == [i \in DOMAIN text |-> ToLower(text[i])]

Cases(text) == {text, Upper(text), Lower(text)}

YearTexts ==
    {Pad(Numeral(y), 4) : y \in {0, 1976, 2014, 2016}} \cup {<<"M","M","X","I","V">>}

MonthNameTexts ==
    UNION {Cases(t) : t \in {<<"F","e","b">>, <<"J","u","n">>,
                             <<"S","e","p","t">>, <<"D","e","c">>}}
    \cup {<<"J","u","n","e">>, <<"F","o","o">>}

MonthTexts ==
    {Numeral(n) : n \in 0..MaxMonthNum} \cup {Pad(Numeral(6), 2)} \cup MonthNameTexts

DayTexts ==
    {Numeral(n) : n \in {0, 1, 15} \cup 28..MaxDayNum} \cup {<<"x">>}

SeasonTexts ==
    DOMAIN SEASONS \cup {<<"s","p","r","i","n","g">>, <<"M","o","n","s","o","o","n">>}

\* the parts of the free-text forms
MedYears == {Pad(Numeral(y), 4) : y \in {0, 1976, 2014}}

MedYears2 == {Pad(Numeral(y), 4) : y \in {0, 1977}}

MedMonths ==
    {<<"J","u","n">>, <<"a","u","g">>, <<"F","E","B">>, <<"S","e","p","t">>, <<"F","o","o">>}

MedMonths2 == {<<"J","u","l">>, <<"X","y","z">>, <<"S","e","p","t">>}

MedDays == {Numeral(n) : n \in {0, 4, 28, 30}} \cup {Pad(Numeral(4), 2), Numeral(MaxDayNum)}

MedDays2 == {Numeral(5), Numeral(99)}

MedSeasons ==
    {<<"F","a","l","l">>, <<"w","i","n","t","e","r">>, <<"S","P","R","I","N","G">>,
     <<"A","u","t","u","m","n">>, <<"S","u","m","m","e","r">>, <<"F","o","o">>}

MedSeasons2 == {<<"W","i","n","t","e","r">>, <<"x">>}

\* what may follow the form in the MedlineDate text
Suffixes == {<<>>, <<"\n">>, <<" ">>}

SP == <<" ">>

HY == <<"-">>

Forms ==
    { "Y", "Y M-M", "Y M D-D", "Y M-Y M", "Y-Y", "Y M D-M D",
      "Y-Y S", "Y-Y S-S", "Y M-M D" }

\* the MedlineDate text of a description
MedlineText(src) ==
    ( CASE src.form = "Y"         -> src.y
        [] src.form = "Y M-M"     -> src.y \o SP \o src.m \o HY \o src.m2
        [] src.form = "Y M D-D"   -> src.y \o SP \o src.m \o SP \o src.d \o HY \o src.d2
        [] src.form = "Y M-Y M"   -> src.y \o SP \o src.m \o HY \o src.y2 \o SP \o src.m2
        [] src.form = "Y-Y"       -> src.y \o HY \o src.y2
        [] src.form = "Y M D-M D" ->
               src.y \o SP \o src.m \o SP \o src.d \o HY \o src.m2 \o SP \o src.d2
        [] src.form = "Y-Y S"     -> src.y \o HY \o src.y2 \o SP \o src.s
        [] src.form = "Y-Y S-S"   -> src.y \o HY \o src.y2 \o SP \o src.s \o HY \o src.s2
        [] src.form = "Y M-M D"   -> src.y \o SP \o src.m \o HY \o src.m2 \o SP \o src.d
        [] OTHER                  -> src.medline ) \o src.suffix

Opt(S) == S \cup {Absent}

Only(b, S) == IF b THEN S ELSE {Absent}

\* PubDate elements given by their child texts, with or without a MedlineDate
FieldSources ==
    [form : {"fields"}, y : Opt(YearTexts), m : Opt(MonthTexts), d : Opt(DayTexts),
     s : Opt(SeasonTexts), y2 : {Absent}, m2 : {Absent}, d2 : {Absent}, s2 : {Absent},
     medline : {Absent}, suffix : {Absent}]
    \cup
    [form : {"fields"}, y : Opt({Pad(Numeral(2014), 4)}), m : Opt({<<"J","u","n">>}),
     d : Opt({Numeral(15)}), s : Opt({<<"F","a","l","l">>}),
     y2 : {Absent}, m2 : {Absent}, d2 : {Absent}, s2 : {Absent},
     medline : {Pad(Numeral(1976), 4),
                <<"S","p","r","i","n","g"," ","2","0","1","4">>,
                <<"1","9","7","6"," ","A","u","g"," ","2","8","-","S","e","p"," ","4">>},
     suffix : {Absent}]

\* PubDate elements with only a MedlineDate, written in one of the forms
MedlineSources ==
    UNION { [form : {f},
             y  : MedYears,
             m  : Only(f \in {"Y M-M", "Y M D-D", "Y M-Y M", "Y M D-M D", "Y M-M D"}, MedMonths),
             d  : Only(f \in {"Y M D-D", "Y M D-M D", "Y M-M D"}, MedDays),
             s  : Only(f \in {"Y-Y S", "Y-Y S-S"}, MedSeasons),
             y2 : Only(f \in {"Y M-Y M", "Y-Y", "Y-Y S", "Y-Y S-S"}, MedYears2),
             m2 : Only(f \in {"Y M-M", "Y M-Y M", "Y M D-M D", "Y M-M D"}, MedMonths2),
             d2 : Only(f \in {"Y M D-D", "Y M D-M D"}, MedDays2),
             s2 : Only(f = "Y-Y S-S", MedSeasons2),
             medline : {Absent},
             suffix : IF f \in {"Y", "Y-Y", "Y-Y S"} THEN Suffixes ELSE {Absent}]
            : f \in Forms }

Sources == FieldSources \cup MedlineSources

\* the child texts of the PubDate element: extract_first(element.xpath('./X/text()'))
Element(src) ==
    IF src.form = "fields"
    THEN [Year |-> src.y, Month |-> src.m, Day |-> src.d, Season |-> src.s,
          MedlineDate |-> src.medline]
    ELSE [Year |-> Absent, Month |-> Absent, Day |-> Absent, Season |-> Absent,
          MedlineDate |-> MedlineText(src)]

NoElement ==
    [Year |-> Absent, Month |-> Absent, Day |-> Absent, Season |-> Absent,
     MedlineDate |-> Absent]

NoSource ==
    [form |-> "", y |-> Absent, m |-> Absent, d |-> Absent, s |-> Absent,
     y2 |-> Absent, m2 |-> Absent, d2 |-> Absent, s2 |-> Absent,
     medline |-> Absent, suffix |-> Absent]

NoError == [type |-> "", msg |-> NoElement]

----------------------------------------------------------------------------
(* The affiliation patterns.  Their groups are greedy .+ runs, so a match  *)
(* is the one re finds by backtracking: from left to right every           *)
(* quantified class takes the longest run that lets the rest of the        *)
(* pattern match.                                                          *)

\* . without re.DOTALL: any character but a newline
Dot == [neg |-> TRUE, set |-> {"\n"}]

\* \D
NonDigit == [neg |-> TRUE, set |-> Digit]

\* [\-\d]
HyphenDigit == [neg |-> FALSE, set |-> Digit \cup {"-"}]

InClass(c, cls) == IF cls.neg THEN c \notin cls.set ELSE c \in cls.set

\* the items of a pattern: cls+, a literal character, (?P<name> and ), $
Plus(cls) == [op |-> "plus", cls |-> cls, c |-> "", name |-> ""]

Ch(c) == [op |-> "lit", cls |-> Dot, c |-> c, name |-> ""]

Open(name) == [op |-> "open", cls |-> Dot, c |-> "", name |-> name]

Close(name) == [op |-> "close", cls |-> Dot, c |-> "", name |-> name]

Dollar == [op |-> "end", cls |-> Dot, c |-> "", name |-> ""]

\* (?P<name>cls+)
Group(name, cls) == << Open(name), Plus(cls), Close(name) >>

CommaSpace == << Ch(","), Ch(" ") >>

\* match.groupdict(): where each group starts and the text it holds
NoGroupdict ==
    [n \in {"institute", "college", "university", "street_number", "street",
            "city", "city_postcode", "province", "country"} |->
        [start |-> 0, text |-> <<>>]]

\* the length of the run of characters of the class that starts at pos
ClassRun(s, pos, cls) ==
    LET stops == {i \in pos..Len(s) : ~InClass(s[i], cls)}
    IN  IF stops = {} THEN Len(s) + 1 - pos
        ELSE (CHOOSE i \in stops : \A j \in stops : i <= j) - pos

RECURSIVE CanStart(_, _, _, _)

\* whether the character at pos lets the items from the k-th on begin there
CanStart(pat, k, s, pos) ==
    IF k > Len(pat) THEN TRUE
    ELSE LET it == pat[k]
         IN  CASE it.op \in {"open", "close"} -> CanStart(pat, k + 1, s, pos)
               [] it.op = "lit" -> pos <= Len(s) /\ s[pos] = it.c
               [] it.op = "end" -> AtEnd(s, pos)
               [] it.op = "plus" -> pos <= Len(s) /\ InClass(s[pos], it.cls)

RECURSIVE MatchItems(_, _, _, _, _)

\* the items from the k-th on, matched at pos; a quantified class takes the
\* longest run after which the rest of the pattern matches
MatchItems(pat, k, s, pos, groups) ==
    IF k > Len(pat)
    THEN [matched |-> TRUE, groups |-> groups, end |-> pos]
    ELSE LET it == pat[k]
             failed == [matched |-> FALSE, groups |-> groups, end |-> pos]
         IN  CASE it.op = "open" ->
                    LET opened == [groups EXCEPT ![it.name] = [start |-> pos, text |-> <<>>]]
                    IN  MatchItems(pat, k + 1, s, pos, opened)
               [] it.op = "close" ->
                    LET closed == [groups EXCEPT ![it.name] =
                                      [start |-> @.start, text |-> SubSeq(s, @.start, pos - 1)]]
                    IN  MatchItems(pat, k + 1, s, pos, closed)
               [] it.op = "lit" ->
                    IF pos <= Len(s) /\ s[pos] = it.c
                    THEN LET after == pos + 1 IN MatchItems(pat, k + 1, s, after, groups)
                    ELSE failed
               [] it.op = "end" ->
                    IF AtEnd(s, pos) THEN MatchItems(pat, k + 1, s, pos, groups) ELSE failed
               [] it.op = "plus" ->
                    LET runs  == {n \in 1..ClassRun(s, pos, it.cls) :
                                     CanStart(pat, k + 1, s, pos + n)}
                        tried == {<<n, MatchItems(pat, k + 1, s, pos + n, groups)>> :
                                     n \in runs}
                        taken == {t \in tried : t[2].matched}
                    IN  IF taken = {} THEN failed
                        ELSE (CHOOSE t \in taken : \A u \in taken : u[1] <= t[1])[2]

\* pattern.search(text) for a pattern that starts with ^: None or the groupdict
aff_search(pat, text) == MatchItems(pat, 1, text, 1, NoGroupdict)

\* the country group taking the final period: ... (?P<country>.+)$
pattern_CityPostcodeCity_CountryToEnd ==
    Group("college", Dot) \o CommaSpace \o Group("university", Dot) \o CommaSpace
    \o Group("city_postcode", HyphenDigit) \o << Ch(" ") >> \o Group("city", Dot)
    \o CommaSpace \o Group("country", Dot) \o << Dollar >>

\* ^(?P<college>[^,]+), ... : a college group that takes one clause only
pattern_CityPostcodeCity_CollegeOneClause ==
    Group("college", [neg |-> TRUE, set |-> {",", "\n"}]) \o CommaSpace
    \o Group("university", Dot) \o CommaSpace
    \o Group("city_postcode", HyphenDigit) \o << Ch(" ") >> \o Group("city", Dot)
    \o CommaSpace \o Group("country", Dot) \o << Ch("."), Dollar >>

\* ^(?P<college>.+), (?P<university>.+), (?P<city_postcode>[\-\d]+) (?P<city>.+), (?P<country>.+)\.$
pattern_CityPostcodeCity ==
    Group("college", Dot) \o CommaSpace \o Group("university", Dot) \o CommaSpace
    \o Group("city_postcode", HyphenDigit) \o << Ch(" ") >> \o Group("city", Dot)
    \o CommaSpace \o Group("country", Dot) \o << Ch("."), Dollar >>

\* ^(?P<college>.+), (?P<university>.+), (?P<city>.+) (?P<city_postcode>[\-\d]+), (?P<country>.+)\.$
pattern_CityCityPostcode ==
    Group("college", Dot) \o CommaSpace \o Group("university", Dot) \o CommaSpace
    \o Group("city", Dot) \o << Ch(" ") >> \o Group("city_postcode", HyphenDigit)
    \o CommaSpace \o Group("country", Dot) \o << Ch("."), Dollar >>

\* ^(?P<college>.+), (?P<university>.+), (?P<city>.+), (?P<city_postcode>.+ [\-\d]+), (?P<country>.+)\.$
pattern_CityCommaCityPostcode ==
    Group("college", Dot) \o CommaSpace \o Group("university", Dot) \o CommaSpace
    \o Group("city", Dot) \o CommaSpace
    \o << Open("city_postcode"), Plus(Dot), Ch(" "), Plus(HyphenDigit),
          Close("city_postcode") >>
    \o CommaSpace \o Group("country", Dot) \o << Ch("."), Dollar >>

\* ^(?P<college>.+), (?P<university>.+), (?P<city>.+), (?P<province>\D+), (?P<country>.+)\.$
pattern_CityProvince ==
    Group("college", Dot) \o CommaSpace \o Group("university", Dot) \o CommaSpace
    \o Group("city", Dot) \o CommaSpace \o Group("province", NonDigit)
    \o CommaSpace \o Group("country", Dot) \o << Ch("."), Dollar >>

\* ^(?P<college>.+), (?P<university>.+), (?P<street_number>.+), (?P<street>.+),
\*  (?P<city>.+) (?P<city_postcode>[\-\d]+), (?P<country>.+); .+@.+\.$
pattern_StreetNumberCommaStreet ==
    Group("college", Dot) \o CommaSpace \o Group("university", Dot) \o CommaSpace
    \o Group("street_number", Dot) \o CommaSpace \o Group("street", Dot) \o CommaSpace
    \o Group("city", Dot) \o << Ch(" ") >> \o Group("city_postcode", HyphenDigit)
    \o CommaSpace \o Group("country", Dot)
    \o << Ch(";"), Ch(" "), Plus(Dot), Ch("@"), Plus(Dot), Ch("."), Dollar >>

\* ^(?P<institute>.+), (?P<college>.+), (?P<university>.+), (?P<street>.+),
\*  (?P<city_postcode>[\-\d]+) (?P<city>.+), (?P<country>.+)\.$
pattern_Street ==
    Group("institute", Dot) \o CommaSpace \o Group("college", Dot) \o CommaSpace
    \o Group("university", Dot) \o CommaSpace \o Group("street", Dot) \o CommaSpace
    \o Group("city_postcode", HyphenDigit) \o << Ch(" ") >> \o Group("city", Dot)
    \o CommaSpace \o Group("country", Dot) \o << Ch("."), Dollar >>

----------------------------------------------------------------------------
(* The affiliation recognizers: each __call__, on the affiliation text.    *)

\* None as the value of a field; no text is this one
None == << "None" >>

\* the recognizer returns None
NoAffiliation ==
    [kind |-> "None", college |-> None, university |-> None, address |-> None,
     city |-> None, city_postcode |-> None, province |-> None, country |-> None]

\* Affiliation(college, university, address, city, city_postcode, province, country)
Affiliation(college, university, address, city, city_postcode, province, country) ==
    [kind |-> "Affiliation", college |-> college, university |-> university,
     address |-> address, city |-> city, city_postcode |-> city_postcode,
     province |-> province, country |-> country]

AffiliationParserCityPostcodeCity(text) ==
    LET match == aff_search(pattern_CityPostcodeCity, text)
        data  == match.groups
    IN  IF ~match.matched THEN NoAffiliation
        ELSE Affiliation(data.college.text, data.university.text, None, data.city.text,
                         data.city_postcode.text, None, data.country.text)

AffiliationParserCityCityPostcode(text) ==
    LET match == aff_search(pattern_CityCityPostcode, text)
        data  == match.groups
    IN  IF ~match.matched THEN NoAffiliation
        ELSE Affiliation(data.college.text, data.university.text, None, data.city.text,
                         data.city_postcode.text, None, data.country.text)

\* the state token split out of the postcode clause into the province
AffiliationParserCityCommaCityPostcode_StateAsProvince(text) ==
    LET match == aff_search(pattern_CityCommaCityPostcode, text)
        data  == match.groups
        whole == data.city_postcode.text
        cut   == CHOOSE i \in DOMAIN whole :
                     whole[i] = " " /\ \A j \in (i + 1)..Len(whole) : whole[j] # " "
    IN  IF ~match.matched THEN NoAffiliation
        ELSE Affiliation(data.college.text, data.university.text, None, data.city.text,
                         SubSeq(whole, cut + 1, Len(whole)), SubSeq(whole, 1, cut - 1),
                         data.country.text)

AffiliationParserCityCommaCityPostcode(text) ==
    LET match == aff_search(pattern_CityCommaCityPostcode, text)
        data  == match.groups
    IN  IF ~match.matched THEN NoAffiliation
        ELSE Affiliation(data.college.text, data.university.text, None, data.city.text,
                         data.city_postcode.text, None, data.country.text)

AffiliationParserCityProvince(text) ==
    LET match == aff_search(pattern_CityProvince, text)
        data  == match.groups
    IN  IF ~match.matched THEN NoAffiliation
        ELSE Affiliation(data.college.text, data.university.text, None, data.city.text,
                         None, data.province.text, data.country.text)

\* the street number left out of the address
AffiliationParserStreetNumberCommaStreet_StreetOnly(text) ==
    LET match == aff_search(pattern_StreetNumberCommaStreet, text)
        data  == match.groups
    IN  IF ~match.matched THEN NoAffiliation
        ELSE Affiliation(data.college.text, data.university.text, data.street.text,
                         data.city.text, data.city_postcode.text, None, data.country.text)

\* address='%s, %s' % (data['street_number'], data['street'])
AffiliationParserStreetNumberCommaStreet(text) ==
    LET match == aff_search(pattern_StreetNumberCommaStreet, text)
        data  == match.groups
    IN  IF ~match.matched THEN NoAffiliation
        ELSE Affiliation(data.college.text, data.university.text,
                         data.street_number.text \o <<",", " ">> \o data.street.text,
                         data.city.text, data.city_postcode.text, None, data.country.text)

AffiliationParserStreet(text) ==
    LET match == aff_search(pattern_Street, text)
        data  == match.groups
    IN  IF ~match.matched THEN NoAffiliation
        ELSE Affiliation(data.college.text, data.university.text, data.street.text,
                         data.city.text, data.city_postcode.text, None, data.country.text)

\* the list with the city and postcode recognizers ahead of the street ones
AFFILIATION_PARSERS_CityFirst ==
    << "AffiliationParserCityPostcodeCity",
       "AffiliationParserCityCityPostcode",
       "AffiliationParserCityCommaCityPostcode",
       "AffiliationParserStreet",
       "AffiliationParserStreetNumberCommaStreet" >>

\* the list with the city and province recognizer registered at its end
AFFILIATION_PARSERS_WithCityProvince ==
    << "AffiliationParserStreet",
       "AffiliationParserStreetNumberCommaStreet",
       "AffiliationParserCityCommaCityPostcode",
       "AffiliationParserCityPostcodeCity",
       "AffiliationParserCityCityPostcode",
       "AffiliationParserCityProvince" >>

AFFILIATION_PARSERS ==
    << "AffiliationParserStreet",
       "AffiliationParserStreetNumberCommaStreet",
       "AffiliationParserCityCommaCityPostcode",
       "AffiliationParserCityPostcodeCity",
       "AffiliationParserCityCityPostcode" >>

\* parser(text) for the instance of the named class
CallAffiliationParser(parser, text) ==
    CASE parser = "AffiliationParserStreet" -> AffiliationParserStreet(text)
      [] parser = "AffiliationParserStreetNumberCommaStreet" ->
             AffiliationParserStreetNumberCommaStreet(text)
      [] parser = "AffiliationParserCityCommaCityPostcode" ->
             AffiliationParserCityCommaCityPostcode(text)
      [] parser = "AffiliationParserCityPostcodeCity" -> AffiliationParserCityPostcodeCity(text)
      [] parser = "AffiliationParserCityCityPostcode" -> AffiliationParserCityCityPostcode(text)
      [] parser = "AffiliationParserCityProvince" -> AffiliationParserCityProvince(text)

----------------------------------------------------------------------------
(* The author elements given to Author.parse_element: an AffiliationInfo   *)
(* child or none, and the text of its Affiliation child, written from      *)
(* clauses in one of the forms.                                            *)

\* 'Department of Pharmacy'
DepartmentOfPharmacy ==
    <<"D","e","p","a","r","t","m","e","n","t"," ","o","f"," ","P","h","a",
      "r","m","a","c","y">>

\* 'Pharmaceutical Research Department'
PharmaceuticalResearchDepartment ==
    <<"P","h","a","r","m","a","c","e","u","t","i","c","a","l"," ","R","e",
      "s","e","a","r","c","h"," ","D","e","p","a","r","t","m","e","n","t">>

\* '3rd Clinic'
ThirdClinic ==
    <<"3","r","d"," ","C","l","i","n","i","c">>

\* 'University of Bonn'
UniversityOfBonn ==
    <<"U","n","i","v","e","r","s","i","t","y"," ","o","f"," ","B","o","n",
      "n">>

\* 'Allen and Hanburys Research Ltd.'
AllenAndHanburys ==
    <<"A","l","l","e","n"," ","a","n","d"," ","H","a","n","b","u","r","y",
      "s"," ","R","e","s","e","a","r","c","h"," ","L","t","d",".">>

\* 'Institute of Health Sciences'
InstituteOfHealthSciences ==
    <<"I","n","s","t","i","t","u","t","e"," ","o","f"," ","H","e","a","l",
      "t","h"," ","S","c","i","e","n","c","e","s">>

\* 'Collegium Medicum'
CollegiumMedicum ==
    <<"C","o","l","l","e","g","i","u","m"," ","M","e","d","i","c","u","m">>

\* 'Bonn'
Bonn ==
    <<"B","o","n","n">>

\* 'Ware'
Ware ==
    <<"W","a","r","e">>

\* 'Bonn 2'
Bonn2 ==
    <<"B","o","n","n"," ","2">>

\* 'Zielona Gora'
ZielonaGora ==
    <<"Z","i","e","l","o","n","a"," ","G","o","r","a">>

\* '53113'
Postcode53113 ==
    <<"5","3","1","1","3">>

\* '65-046'
Postcode65046 ==
    <<"6","5","-","0","4","6">>

\* 'Herts'
Herts ==
    <<"H","e","r","t","s">>

\* 'SC'
SC ==
    <<"S","C">>

\* 'Germany'
Germany ==
    <<"G","e","r","m","a","n","y">>

\* 'U.K'
UK ==
    <<"U",".","K">>

\* 'Zyty 28 St.'
Zyty28St ==
    <<"Z","y","t","y"," ","2","8"," ","S","t",".">>

\* 'Kievskaya str.'
KievskayaStr ==
    <<"K","i","e","v","s","k","a","y","a"," ","s","t","r",".">>

\* '111-A'
Number111A ==
    <<"1","1","1","-","A">>

\* 'kitti-lit@yandex.ru'
Email ==
    <<"k","i","t","t","i","-","l","i","t","@","y","a","n","d","e","x",".",
      "r","u">>

\* the forms with X have one clause more, ahead of the others
SurplusForms ==
    { "X, C, U, P Ci, Co.", "X, C, U, Ci P, Co.", "X, C, U, N, St, Ci P, Co; E." }

AffiliationForms ==
    { "C, U, P Ci, Co.", "C, U, Ci P, Co.", "C, U, Ci, Pr P, Co.", "C, U, Ci, Pr, Co.",
      "C, U, N, St, Ci P, Co; E.", "I, C, U, St, P Ci, Co.", "C, U, Co.", "C, Co.", "C." }
    \cup SurplusForms

\* the institute clause, alone or after one more clause
Institutes ==
    {InstituteOfHealthSciences, CollegiumMedicum \o <<",", " ">> \o InstituteOfHealthSciences}

Colleges == {DepartmentOfPharmacy, ThirdClinic}

Universities == {UniversityOfBonn, AllenAndHanburys}

Cities == {Bonn, ZielonaGora, Bonn2}

Postcodes == {Postcode53113, Postcode65046}

Provinces == {Herts, SC}

Countries == {Germany, UK}

Streets == {Zyty28St, KievskayaStr}

\* white space before and after the text
Leads == {Absent, <<" ">>}

Trails == {Absent, <<" ">>, <<"\n">>}

\* an Affiliation text written from clauses, as PubMed writes it
WrittenPlain(g) == g.lead = Absent /\ g.trail = Absent /\ g.period

\* the clauses of the first text of each form
FirstClauses(g) ==
    /\ g.c = DepartmentOfPharmacy
    /\ g.u \in {UniversityOfBonn, Absent}
    /\ g.ci \in {Bonn, Absent}
    /\ g.p \in {Postcode53113, Absent}
    /\ g.pr \in {Herts, Absent}
    /\ g.co \in {Germany, Absent}
    /\ g.st \in {Zyty28St, Absent}

\* the texts of a form: every choice of clauses written plainly, and the first
\* text with white space around it or without its final period
TextsOfForm(f) ==
    {g \in [kind : {"text"}, form : {f},
            i  : IF f = "I, C, U, St, P Ci, Co." THEN Institutes
                 ELSE Only(f \in SurplusForms, {CollegiumMedicum}),
            c  : Colleges \cup (IF f = "C, U, Ci, Pr, Co."
                                THEN {PharmaceuticalResearchDepartment} ELSE {}),
            u  : Only(f \notin {"C, Co.", "C."}, Universities),
            n  : Only(f \in {"C, U, N, St, Ci P, Co; E.", "X, C, U, N, St, Ci P, Co; E."},
                      {Number111A}),
            st : Only(f \in {"C, U, N, St, Ci P, Co; E.", "I, C, U, St, P Ci, Co.",
                             "X, C, U, N, St, Ci P, Co; E."}, Streets),
            ci : Only(f \notin {"C, U, Co.", "C, Co.", "C."},
                      Cities \cup (IF f = "C, U, Ci, Pr, Co." THEN {Ware} ELSE {})),
            p  : Only(f \in {"C, U, P Ci, Co.", "C, U, Ci P, Co.", "C, U, Ci, Pr P, Co.",
                             "C, U, N, St, Ci P, Co; E.", "I, C, U, St, P Ci, Co."}
                             \cup SurplusForms,
                      Postcodes),
            pr : Only(f \in {"C, U, Ci, Pr P, Co.", "C, U, Ci, Pr, Co."}, Provinces),
            co : Only(f # "C.", Countries),
            e  : Only(f \in {"C, U, N, St, Ci P, Co; E.", "X, C, U, N, St, Ci P, Co; E."},
                      {Email}),
            lead : Leads, trail : Trails, period : BOOLEAN] :
        WrittenPlain(g) \/ FirstClauses(g)}

\* an Author element without AffiliationInfo, and one whose AffiliationInfo has
\* no Affiliation text
NoClauses(k) ==
    [kind |-> k, form |-> "", i |-> Absent, c |-> Absent, u |-> Absent, n |-> Absent,
     st |-> Absent, ci |-> Absent, p |-> Absent, pr |-> Absent, co |-> Absent,
     e |-> Absent, lead |-> Absent, trail |-> Absent, period |-> FALSE]

AuthorSources ==
    UNION {TextsOfForm(f) : f \in AffiliationForms}
    \cup {NoClauses("no AffiliationInfo"), NoClauses("no Affiliation")}

CS == <<",", " ">>

\* the Affiliation text of a source
AffiliationText(g) ==
    LET body ==
          CASE g.form = "C, U, P Ci, Co." ->
                 g.c \o CS \o g.u \o CS \o g.p \o SP \o g.ci \o CS \o g.co
            [] g.form = "C, U, Ci P, Co." ->
                 g.c \o CS \o g.u \o CS \o g.ci \o SP \o g.p \o CS \o g.co
            [] g.form = "C, U, Ci, Pr P, Co." ->
                 g.c \o CS \o g.u \o CS \o g.ci \o CS \o g.pr \o SP \o g.p \o CS \o g.co
            [] g.form = "C, U, Ci, Pr, Co." ->
                 g.c \o CS \o g.u \o CS \o g.ci \o CS \o g.pr \o CS \o g.co
            [] g.form = "C, U, N, St, Ci P, Co; E." ->
                 g.c \o CS \o g.u \o CS \o g.n \o CS \o g.st \o CS \o g.ci \o SP \o g.p
                 \o CS \o g.co \o <<";", " ">> \o g.e
            [] g.form = "I, C, U, St, P Ci, Co." ->
                 g.i \o CS \o g.c \o CS \o g.u \o CS \o g.st \o CS \o g.p \o SP \o g.ci
                 \o CS \o g.co
            [] g.form = "X, C, U, P Ci, Co." ->
                 g.i \o CS \o g.c \o CS \o g.u \o CS \o g.p \o SP \o g.ci \o CS \o g.co
            [] g.form = "X, C, U, Ci P, Co." ->
                 g.i \o CS \o g.c \o CS \o g.u \o CS \o g.ci \o SP \o g.p \o CS \o g.co
            [] g.form = "X, C, U, N, St, Ci P, Co; E." ->
                 g.i \o CS \o g.c \o CS \o g.u \o CS \o g.n \o CS \o g.st \o CS
                 \o g.ci \o SP \o g.p \o CS \o g.co \o <<";", " ">> \o g.e
            [] g.form = "C, U, Co." -> g.c \o CS \o g.u \o CS \o g.co
            [] g.form = "C, Co." -> g.c \o CS \o g.co
            [] g.form = "C." -> g.c
            [] OTHER -> Absent
    IN  g.lead \o body \o (IF g.period THEN <<".">> ELSE <<>>) \o g.trail

\* the Author element: whether it has an AffiliationInfo child, whether that
\* has an Affiliation text, and the text
AuthorElement(g) ==
    [AffiliationInfo |-> g.kind # "no AffiliationInfo",
     Affiliation |-> IF g.kind = "text" THEN AffiliationText(g) ELSE Absent]

NoAuthorElement == [AffiliationInfo |-> FALSE, Affiliation |-> Absent]

----------------------------------------------------------------------------
(* Affiliation.parse_element, Author.parse_element and the to_dict methods *)
(* as functions of the element.                                            *)

RECURSIVE first_affiliation(_, _, _)
first_affiliation(parsers, i, text) ==
    IF i > Len(parsers)
    THEN [affiliation |-> NoAffiliation, by |-> ""]
    ELSE LET affiliation == CallAffiliationParser(parsers[i], text)
         IN  IF affiliation.kind # "None"
             THEN [affiliation |-> affiliation, by |-> parsers[i]]
             ELSE first_affiliation(parsers, i + 1, text)

\* no match taken as an error, as parse_pubdate takes it: nothing logged
Affiliation_parse_element_Raising(parsers, el) ==
    LET found == first_affiliation(parsers, 1, el.Affiliation)
    IN  IF el.Affiliation = Absent \/ found.affiliation.kind = "None"
        THEN [kind |-> "raise", exc |-> "PubmedMapperError", affiliation |-> NoAffiliation,
              by |-> "", log |-> <<>>]
        ELSE [kind |-> "return", exc |-> "", affiliation |-> found.affiliation,
              by |-> found.by, log |-> <<>>]

\* Affiliation.parse_element(element): element.xpath('./Affiliation/text()')[0]
\* raises IndexError when there is no text
Affiliation_parse_element(parsers, el) ==
    IF el.Affiliation = Absent
    THEN [kind |-> "raise", exc |-> "IndexError", affiliation |-> NoAffiliation,
          by |-> "", log |-> <<>>]
    ELSE LET found == first_affiliation(parsers, 1, el.Affiliation)
         IN  [kind |-> "return", exc |-> "", affiliation |-> found.affiliation,
              by |-> found.by,
              log |-> IF found.affiliation.kind = "None"
                      THEN << [level |-> "WARNING",
                               msg |-> "cannot parse affiliation text: %s",
                               arg |-> el.Affiliation] >>
                      ELSE <<>>]

\* AuthorElementParserMixin.parse_affiliation
parse_affiliation(parsers, el) ==
    IF ~el.AffiliationInfo
    THEN [kind |-> "return", exc |-> "", affiliation |-> NoAffiliation, by |-> "",
          log |-> <<>>]
    ELSE Affiliation_parse_element(parsers, el)

\* Affiliation.to_dict: a field that is None or empty is null
Affiliation_to_dict(a) ==
    [f \in {"college", "university", "address", "city", "city_postcode", "province",
            "country"} |-> IF a[f] = None \/ a[f] = <<>> THEN None ELSE a[f]]

\* Author.to_dict, the names of the author left out:
\* 'affiliation': self.affiliation.to_dict() if self.affiliation else None
Author_to_dict(a) ==
    IF a.affiliation.kind = "None"
    THEN [affiliation |-> [json |-> "null"]]
    ELSE [affiliation |-> [json |-> "object", dict |-> Affiliation_to_dict(a.affiliation)]]

NoAuthor == [kind |-> "None", affiliation |-> NoAffiliation]

AuthorInit ==
    /\ author_pc = "idle"
    /\ author_given = NoClauses("")
    /\ author_element = NoAuthorElement
    /\ author = NoAuthor
    /\ author_by = ""
    /\ author_error = ""
    /\ log = <<>>

BatchInit ==
    /\ batch_pc = "idle"
    /\ command = ""
    /\ articles = <<>>
    /\ article_idx = 1
    /\ outfile = <<>>
    /\ mapped = <<>>
    /\ batch_error = ""

----------------------------------------------------------------------------
(* Article.parse_pubdate, one step per iteration of its loop, called once  *)
(* per article by the loop of single_file.                                 *)

Init ==
    /\ pc = "idle"
    /\ given = NoSource
    /\ element = NoElement
    /\ idx = 1
    /\ called = <<>>
    /\ pubdate = NoMatch
    /\ error = NoError
    /\ months = MONTHS
    /\ seasons = SEASONS
    /\ pubdate_parsers = PUBDATE_PARSERS
    /\ affiliation_parsers = AFFILIATION_PARSERS
    /\ AuthorInit
    /\ BatchInit

\* parse_pubdate is entered with the article's PubDate element; pubdate = None
Begin ==
    /\ pc = "idle"
    /\ \E g \in Sources :
         /\ given' = g
         /\ element' = Element(g)
    /\ pc' = "loop"
    /\ idx' = 1
    /\ called' = <<>>
    /\ pubdate' = NoMatch
    /\ error' = NoError
    /\ UNCHANGED not_date_vars

\* an exception of a recognizer taken as None, the loop going on
Iterate_FallThrough ==
    /\ pc = "loop"
    /\ idx <= Len(pubdate_parsers)
    /\ LET parser == pubdate_parsers[idx]
           result == CallParser(parser, element)
       IN  /\ called' = Append(called, parser)
           /\ pubdate' = IF result.kind = "date" THEN result ELSE NoMatch
           /\ pc' = IF result.kind = "date" THEN "after_loop" ELSE "loop"
           /\ idx' = IF result.kind = "date" THEN idx ELSE idx + 1
           /\ error' = error
    /\ UNCHANGED <<given, element>>
    /\ UNCHANGED not_date_vars

\* one iteration: pubdate = parser(pubdate_element); if pubdate: break
Iterate ==
    /\ pc = "loop"
    /\ idx <= Len(pubdate_parsers)
    /\ LET parser == pubdate_parsers[idx]
           result == CallParser(parser, element)
       IN  /\ called' = Append(called, parser)
           /\ IF result.kind = "raise"
              THEN /\ pc' = "raised"
                   /\ error' = [type |-> result.exc, msg |-> NoElement]
                   /\ UNCHANGED <<pubdate, idx>>
              ELSE /\ pubdate' = result
                   /\ pc' = IF result.kind = "date" THEN "after_loop" ELSE "loop"
                   /\ idx' = IF result.kind = "date" THEN idx ELSE idx + 1
                   /\ error' = error
    /\ UNCHANGED <<given, element>>
    /\ UNCHANGED not_date_vars

\* the list is exhausted without a break
Exhausted ==
    /\ pc = "loop"
    /\ idx > Len(pubdate_parsers)
    /\ pc' = "after_loop"
    /\ UNCHANGED <<given, element, idx, called, pubdate, error>>
    /\ UNCHANGED not_date_vars

\* if pubdate is None: raise PubmedMapperError(... tostring(pubdate_element)); return pubdate
Finish ==
    /\ pc = "after_loop"
    /\ IF pubdate.kind = "None"
       THEN /\ pc' = "raised"
            /\ error' = [type |-> "PubmedMapperError", msg |-> element]
       ELSE /\ pc' = "returned"
            /\ error' = error
    /\ UNCHANGED <<given, element, idx, called, pubdate>>
    /\ UNCHANGED not_date_vars

\* the caller goes on to its next article
NextArticle ==
    /\ pc \in {"returned", "raised"}
    /\ pc' = "idle"
    /\ given' = NoSource
    /\ element' = NoElement
    /\ idx' = 1
    /\ called' = <<>>
    /\ pubdate' = NoMatch
    /\ error' = NoError
    /\ UNCHANGED not_date_vars

Next == Begin \/ Iterate \/ Exhausted \/ Finish \/ NextArticle

Spec == Init /\ [][Next]_vars

----------------------------------------------------------------------------
(* Author.parse_element, called once per Author element by parse_authors:  *)
(* the whole call is one step.                                             *)

\* Author.parse_element(element), with Affiliation.parse_element inside it
ParseAuthor ==
    /\ author_pc = "idle"
    /\ \E g \in AuthorSources :
         \E affiliation \in {parse_affiliation(affiliation_parsers, AuthorElement(g))} :
             /\ author_given' = g
             /\ author_element' = AuthorElement(g)
             /\ log' = log \o affiliation.log
             /\ author_by' = affiliation.by
             /\ IF affiliation.kind = "raise"
                THEN /\ author_pc' = "raised"
                     /\ author_error' = affiliation.exc
                     /\ author' = NoAuthor
                ELSE /\ author_pc' = "returned"
                     /\ author_error' = ""
                     /\ author' = [kind |-> "Author",
                                   affiliation |-> affiliation.affiliation]
    /\ UNCHANGED not_author_vars

\* the caller goes on to its next Author element
NextAuthor ==
    /\ author_pc \in {"returned", "raised"}
    /\ author_pc' = "idle"
    /\ author_given' = NoClauses("")
    /\ author_element' = NoAuthorElement
    /\ author' = NoAuthor
    /\ author_by' = ""
    /\ author_error' = ""
    /\ log' = <<>>
    /\ UNCHANGED not_author_vars

NextAuthors == ParseAuthor \/ NextAuthor

SpecAuthors == Init /\ [][NextAuthors]_vars

----------------------------------------------------------------------------
(* Article.parse_pubdate as a function: the whole loop over a recognizer   *)
(* list and the test after it, for the callers that run it in one step.    *)

RECURSIVE parse_pubdate_from(_, _, _)
parse_pubdate_from(parsers, i, el) ==
    IF i > Len(parsers)
    THEN [pc |-> "raised", pubdate |-> NoMatch, exc |-> "PubmedMapperError", by |-> ""]
    ELSE LET result == CallParser(parsers[i], el)
         IN  IF result.kind = "raise"
             THEN [pc |-> "raised", pubdate |-> NoMatch, exc |-> result.exc,
                   by |-> parsers[i]]
             ELSE IF result.kind = "date"
             THEN [pc |-> "returned", pubdate |-> result, exc |-> "", by |-> parsers[i]]
             ELSE parse_pubdate_from(parsers, i + 1, el)

parse_pubdate(parsers, el) == parse_pubdate_from(parsers, 1, el)

\* what the call in progress has come to, in the same shape
Outcome ==
    [pc |-> pc, pubdate |-> pubdate, exc |-> error.type,
     by |-> IF pc = "raised" /\ error.type = "PubmedMapperError" THEN ""
            ELSE called[Len(called)]]

\* the loop of the actions and the function compute the same call
StepsAgreeWithFunction ==
    pc \in {"returned", "raised"} => Outcome = parse_pubdate(pubdate_parsers, element)

----------------------------------------------------------------------------
(* The cascade run over the same recognizers in another order: the list    *)
(* PUBDATE_PARSERS with two entries exchanged, or with the MedlineDate     *)
(* recognizers reversed.                                                   *)

\* how far apart the two exchanged entries are at most
MaxSwapSpan == 2

Swap(seq, i, j) ==
    [k \in DOMAIN seq |-> IF k = i THEN seq[j] ELSE IF k = j THEN seq[i] ELSE seq[k]]

\* the structured recognizers are the first four entries of PUBDATE_PARSERS
NumStructured == Cardinality({k \in DOMAIN PUBDATE_PARSERS :
                     \E f \in {"MonthDay", "Month", "Season", "Only"} :
                         PUBDATE_PARSERS[k] = "PubdateParserYear" \o f})

MedlineReversed ==
    [k \in DOMAIN PUBDATE_PARSERS |->
        IF k <= NumStructured THEN PUBDATE_PARSERS[k]
        ELSE PUBDATE_PARSERS[Len(PUBDATE_PARSERS) + NumStructured + 1 - k]]

PermutedOrders ==
    {PUBDATE_PARSERS, MedlineReversed}
    \cup {Swap(PUBDATE_PARSERS, ij[1], ij[2]) :
              ij \in {ij \in (DOMAIN PUBDATE_PARSERS) \X (DOMAIN PUBDATE_PARSERS) :
                         ij[1] < ij[2] /\ ij[2] - ij[1] <= MaxSwapSpan}}

\* the inputs of the permuted runs: every MedlineDate text of the forms and the
\* elements that carry several representations
PermutedSources ==
    {g \in Sources : g.form # "fields" \/ g.medline # Absent
                        \/ (g.y \in {Absent, Numeral(2014)}
                            /\ g.m \in {Absent, <<"J","u","n">>, <<"6">>}
                            /\ g.d \in {Absent, Numeral(15)})}

InitPermuted ==
    /\ pc = "idle"
    /\ given = NoSource
    /\ element = NoElement
    /\ idx = 1
    /\ called = <<>>
    /\ pubdate = NoMatch
    /\ error = NoError
    /\ months = MONTHS
    /\ seasons = SEASONS
    /\ pubdate_parsers \in PermutedOrders
    /\ affiliation_parsers = AFFILIATION_PARSERS
    /\ AuthorInit
    /\ BatchInit

BeginPermuted ==
    /\ pc = "idle"
    /\ \E g \in PermutedSources :
         /\ given' = g
         /\ element' = Element(g)
    /\ pc' = "loop"
    /\ idx' = 1
    /\ called' = <<>>
    /\ pubdate' = NoMatch
    /\ error' = NoError
    /\ UNCHANGED not_date_vars

NextPermuted == BeginPermuted \/ Iterate \/ Exhausted \/ Finish \/ NextArticle

SpecPermuted == InitPermuted /\ [][NextPermuted]_vars

----------------------------------------------------------------------------
(* single_file and directory: the loop over the PubmedArticle elements,    *)
(* one step per article, with Article.parse_element, the write of the line *)
(* and the except clause inside the step.                                  *)

\* how many articles a run is given at most
MaxArticles == 2

DateElement(y, m, d, medline) ==
    [Year |-> y, Month |-> m, Day |-> d, Season |-> Absent, MedlineDate |-> medline]

\* 'Department of Pharmacy, University of Bonn, 53113 Bonn, Germany.'
BonnAuthor ==
    AuthorElement([NoClauses("text") EXCEPT
                     !.form = "C, U, P Ci, Co.", !.c = DepartmentOfPharmacy,
                     !.u = UniversityOfBonn, !.p = Postcode53113, !.ci = Bonn,
                     !.co = Germany, !.period = TRUE])

\* 'Pharmaceutical Research Department, Allen and Hanburys Research Ltd., Ware, Herts, U.K.'
HertsAuthor ==
    AuthorElement([NoClauses("text") EXCEPT
                     !.form = "C, U, Ci, Pr, Co.", !.c = PharmaceuticalResearchDepartment,
                     !.u = AllenAndHanburys, !.ci = Ware, !.pr = Herts, !.co = UK,
                     !.period = TRUE])

\* a PubmedArticle element with everything Article.parse_element reads
CompleteArticle ==
    [PMID |-> <<"1","0","1">>,
     Authors |-> << BonnAuthor >>,
     Journal |-> TRUE,
     PubDate |-> TRUE,
     Date |-> DateElement(Numeral(2014), <<"J","u","n">>, Numeral(15), Absent)]

\* the PubmedArticle elements of the input files: complete ones, and ones with
\* an unmatched affiliation, a date no recognizer takes, a day that is no day
\* of the month, or without PMID, Journal, PubDate or Affiliation text
ArticleSources ==
    { CompleteArticle,
      [CompleteArticle EXCEPT !.PMID = <<"1","0","2">>, !.Authors = << HertsAuthor >>,
          !.Date = DateElement(Absent, Absent, Absent,
                               <<"1","9","7","6"," ","A","u","g"," ","2","8","-",
                                 "S","e","p"," ","4">>)],
      [CompleteArticle EXCEPT !.Authors = <<>>,
          !.Date = DateElement(Numeral(2014), <<"J","u","n">>, Numeral(32), Absent)],
      [CompleteArticle EXCEPT !.Authors = << HertsAuthor, BonnAuthor >>,
          !.Date = DateElement(Absent, Absent, Absent,
                               <<"S","p","r","i","n","g"," ","2","0","1","4">>)],
      [CompleteArticle EXCEPT !.PMID = <<"1","0","3">>,
          !.Authors = << HertsAuthor, BonnAuthor >>],
      [CompleteArticle EXCEPT !.PubDate = FALSE, !.Date = NoElement],
      [CompleteArticle EXCEPT !.Journal = FALSE],
      [CompleteArticle EXCEPT !.PMID = Absent],
      [CompleteArticle EXCEPT !.PMID = Absent,
          !.Date = DateElement(Numeral(2014), <<"J","u","n">>, Numeral(32), Absent)],
      [CompleteArticle EXCEPT !.Authors = << AuthorElement(NoClauses("no Affiliation")) >>] }

\* the sequences of at most n members of S
RECURSIVE SeqsUpTo(_, _)
SeqsUpTo(S, n) ==
    IF n = 0 THEN {<<>>}
    ELSE LET shorter == SeqsUpTo(S, n - 1)
         IN  shorter \cup {Append(q, x) : q \in {r \in shorter : Len(r) = n - 1}, x \in S}

\* the value of a singleton: binds a value that is computed once
TheOne(S) == CHOOSE x \in S : TRUE

\* parse_authors: Author.parse_element on every Author element, in order, up
\* to the first that raises; the warnings logged on the way
RECURSIVE parse_authors(_, _, _)
parse_authors(parsers, els, i) ==
    IF i > Len(els)
    THEN [kind |-> "return", exc |-> "", authors |-> <<>>, by |-> <<>>, log |-> <<>>]
    ELSE TheOne({
           IF first.kind = "raise"
           THEN [kind |-> "raise", exc |-> first.exc, authors |-> <<>>, by |-> <<>>,
                 log |-> first.log]
           ELSE TheOne({
                  IF rest.kind = "raise"
                  THEN [rest EXCEPT !.log = first.log \o rest.log]
                  ELSE [kind |-> "return", exc |-> "",
                        authors |-> << [kind |-> "Author",
                                        affiliation |-> first.affiliation] >>
                                    \o rest.authors,
                        by |-> <<first.by>> \o rest.by,
                        log |-> first.log \o rest.log]
                  : rest \in {parse_authors(parsers, els, i + 1)} })
           : first \in {parse_affiliation(parsers, els[i])} })

NoArticle ==
    [pmid |-> Absent, authors |-> <<>>, pubdate |-> NoMatch, pubdate_by |-> "",
     authors_by |-> <<>>]

Failed(exc, log_) ==
    [kind |-> "raise", exc |-> exc, article |-> NoArticle, log |-> log_]

\* Article.parse_element from parse_journal on, the authors parsed
Article_parse_element_journal(el, authors) ==
    IF ~el.Journal THEN Failed("IndexError", authors.log)
    ELSE IF ~el.PubDate THEN Failed("IndexError", authors.log)
    ELSE TheOne({
           IF date_.pc = "raised" THEN Failed(date_.exc, authors.log)
           ELSE [kind |-> "return", exc |-> "",
                 article |-> [pmid |-> el.PMID, authors |-> authors.authors,
                              pubdate |-> date_.pubdate,
                              pubdate_by |-> date_.by,
                              authors_by |-> authors.by],
                 log |-> authors.log]
           : date_ \in {parse_pubdate(pubdate_parsers, el.Date)} })

\* Article.parse_element: pmid, authors, journal and pubdate in this order,
\* the first exception ending the call
Article_parse_element(el) ==
    IF el.PMID = Absent THEN Failed("IndexError", <<>>)
    ELSE TheOne({
           IF authors.kind = "raise" THEN Failed(authors.exc, authors.log)
           ELSE Article_parse_element_journal(el, authors)
           : authors \in {parse_authors(affiliation_parsers, el.Authors, 1)} })

\* Article.to_dict, with the fields of the model
Article_to_dict(article) ==
    [pmid |-> article.pmid,
     authors |-> [i \in DOMAIN article.authors |-> Author_to_dict(article.authors[i])],
     pubdate |-> <<article.pubdate.year, article.pubdate.month, article.pubdate.day>>]

\* the output file opened for appending: the command starts with a line that
\* was in the file
Run_Appending ==
    /\ batch_pc = "idle"
    /\ command' \in {"single_file", "directory"}
    /\ articles' \in SeqsUpTo(ArticleSources, MaxArticles)
    /\ batch_pc' = "running"
    /\ article_idx' = 1
    /\ outfile' = << Article_to_dict(NoArticle) >>
    /\ mapped' = <<>>
    /\ batch_error' = ""
    /\ log' = <<>>
    /\ UNCHANGED <<table_vars, not_batch_vars>>

\* the command is called with its input files read
Run ==
    /\ batch_pc = "idle"
    /\ command' \in {"single_file", "directory"}
    /\ articles' \in SeqsUpTo(ArticleSources, MaxArticles)
    /\ batch_pc' = "running"
    /\ article_idx' = 1
    /\ outfile' = <<>>
    /\ mapped' = <<>>
    /\ batch_error' = ""
    /\ log' = <<>>
    /\ UNCHANGED <<table_vars, not_batch_vars>>

\* one iteration: try: parse_element, write; except Exception: parse_pmid,
\* logger.error, logger.exception
MapArticleBody ==
    /\ batch_pc = "running"
    /\ article_idx <= Len(articles)
    /\ \E result \in {Article_parse_element(articles[article_idx])} :
         /\ mapped' = Append(mapped, result)
         /\ IF result.kind = "return"
            THEN /\ outfile' = Append(outfile, Article_to_dict(result.article))
                 /\ log' = log \o result.log
                 /\ article_idx' = article_idx + 1
                 /\ UNCHANGED <<batch_pc, batch_error>>
            ELSE IF articles[article_idx].PMID = Absent
            THEN /\ batch_pc' = "crashed"
                 /\ batch_error' = "IndexError"
                 /\ log' = log \o result.log
                 /\ UNCHANGED <<outfile, article_idx>>
            ELSE /\ log' = log \o result.log
                           \o << [level |-> "ERROR", msg |-> "cannot parse %s",
                                  arg |-> articles[article_idx].PMID],
                                 [level |-> "ERROR", msg |-> result.exc,
                                  arg |-> articles[article_idx].PMID] >>
                 /\ article_idx' = article_idx + 1
                 /\ UNCHANGED <<outfile, batch_pc, batch_error>>
    /\ UNCHANGED <<command, articles, not_batch_vars>>

\* an iteration that uses up the first date recognizer of the list
MapArticle_ConsumingParsers ==
    /\ MapArticleBody
    /\ pubdate_parsers' = Tail(pubdate_parsers)
    /\ UNCHANGED <<months, seasons, affiliation_parsers>>

MapArticle ==
    /\ MapArticleBody
    /\ UNCHANGED table_vars

\* the loop ends, the with block closes the output file: return 0
CloseOutput ==
    /\ batch_pc = "running"
    /\ article_idx > Len(articles)
    /\ batch_pc' = "done"
    /\ UNCHANGED <<command, articles, article_idx, outfile, mapped, batch_error, log>>
    /\ UNCHANGED <<table_vars, not_batch_vars>>

\* the command is run again
Rerun ==
    /\ batch_pc \in {"done", "crashed"}
    /\ batch_pc' = "idle"
    /\ command' = ""
    /\ articles' = <<>>
    /\ article_idx' = 1
    /\ outfile' = <<>>
    /\ mapped' = <<>>
    /\ batch_error' = ""
    /\ log' = <<>>
    /\ UNCHANGED <<table_vars, not_batch_vars>>

NextBatch == Run \/ MapArticle \/ CloseOutput \/ Rerun

SpecBatch == Init /\ [][NextBatch]_vars

----------------------------------------------------------------------------
(* Properties of the date cascade.  The expected values below are written  *)
(* from the documented tables, independently of MONTHS and SEASONS.        *)

Terminal == pc \in {"returned", "raised"}

\* the documented priority of the recognizers
RecognizerOrder ==
    << "PubdateParserYearMonthDay", "PubdateParserYearMonth",
       "PubdateParserYearSeason", "PubdateParserYearOnly",
       "PubdateParserMedlineDateYearOnly", "PubdateParserMedlineDateMonthRange",
       "PubdateParserMedlineDateDayRange",
       "PubdateParserMedlineDateMonthRangeCrossYear",
       "PubdateParserMedlineDateRangeYear", "PubdateParserMedlineDateMonthDayRange",
       "PubdateParserMedlineDateYearRangeWithSeason",
       "PubdateParserMedlineDateYearSeasonRange" >>

MonthAbbreviations ==
    << <<"j","a","n">>, <<"f","e","b">>, <<"m","a","r">>, <<"a","p","r">>,
       <<"m","a","y">>, <<"j","u","n">>, <<"j","u","l">>, <<"a","u","g">>,
       <<"s","e","p">>, <<"o","c","t">>, <<"n","o","v">>, <<"d","e","c">> >>

\* the month a three-letter abbreviation names, in any letter case; 0 when none
AbbreviationMonth(text) ==
    IF \E n \in 1..12 : MonthAbbreviations[n] = Lower(text)
    THEN CHOOSE n \in 1..12 : MonthAbbreviations[n] = Lower(text)
    ELSE 0

\* the month a Month text names: a numeral, an abbreviation, or Sept; 0 when none
ExpectedMonth(text) ==
    IF isdigit(text) THEN DigitsValue(text)
    ELSE IF Lower(text) = <<"s","e","p","t">> THEN 9
    ELSE AbbreviationMonth(text)

\* the month a season name stands for, in any letter case; 0 when none
ExpectedSeasonMonth(text) ==
    LET t == Lower(text)
    IN  IF t = <<"s","p","r","i","n","g">> THEN 4
        ELSE IF t = <<"s","u","m","m","e","r">> THEN 7
        ELSE IF t \in {<<"f","a","l","l">>, <<"a","u","t","u","m","n">>} THEN 10
        ELSE IF t = <<"w","i","n","t","e","r">> THEN 1
        ELSE 0

IsDate(y, m, d) == pubdate.kind = "date" /\ pubdate.year = y /\ pubdate.month = m /\ pubdate.day = d

\* C1: parse_pubdate calls the recognizers in the documented order, one
\* after the other from the first, and what it returns is the date of the
\* first recognizer that gives one: every recognizer called before it gave
\* None and none is called after it.
C1_FirstMatchInFixedOrder ==
    /\ Len(called) <= Len(RecognizerOrder)
    /\ called = SubSeq(RecognizerOrder, 1, Len(called))
    /\ pc \in {"after_loop", "returned"} /\ pubdate.kind = "date" =>
         /\ called # <<>>
         /\ pubdate = CallParser(RecognizerOrder[Len(called)], element)
         /\ \A j \in 1..(Len(called) - 1) :
                CallParser(RecognizerOrder[j], element).kind = "None"
    /\ pc = "returned" => pubdate.kind = "date"

\* the last recognizer of the list is reached and is the one that answers
C1_Witness ==
    /\ pc = "returned"
    /\ Len(called) = 12
    /\ called[12] = "PubdateParserMedlineDateYearSeasonRange"

MedlinePatterns ==
    { pattern_YearOnly, pattern_MonthRange, pattern_DayRange,
      pattern_MonthRangeCrossYear, pattern_RangeYear, pattern_MonthDayRange,
      pattern_YearRangeWithSeason, pattern_YearSeasonRange }

MatchesNoMedlinePattern(text) ==
    \A pat \in MedlinePatterns : ~search(pat, text).matched

\* C2: a PubDate with no Year text, whose MedlineDate is absent or matches
\* none of the Medline patterns, never gives a date: parse_pubdate raises
\* PubmedMapperError and the error carries the PubDate element.
C2_NoYearNoMedlineIsUnrecognized ==
    ( /\ Terminal
      /\ element.Year = Absent
      /\ element.MedlineDate = Absent \/ MatchesNoMedlinePattern(element.MedlineDate) )
    => /\ pc = "raised"
       /\ pubdate.kind = "None"
       /\ error.type = "PubmedMapperError"
       /\ error.msg = element

\* Month and MedlineDate are given, the Year is not, and the text fits no pattern
C2_Witness ==
    /\ pc = "raised"
    /\ error.type = "PubmedMapperError"
    /\ element.Year = Absent
    /\ element.Month # Absent
    /\ element.MedlineDate # Absent
    /\ MatchesNoMedlinePattern(element.MedlineDate)

\* Year, Month and Day are all of the right shape (digits, or a known month
\* abbreviation) but together they are no calendar date
ShapedButInvalidYearMonthDay ==
    /\ given.form = "fields"
    /\ isdigit(given.y) /\ isdigit(given.d)
    /\ isdigit(given.m) \/ ExpectedMonth(given.m) # 0
    /\ ~ValidDate(DigitsValue(given.y), ExpectedMonth(given.m), DigitsValue(given.d))

\* C3: when a recognizer matches the shape of its input but the values are
\* not a calendar date, parse_pubdate fails with PubmedMapperError, the
\* failure it raises when no recognizer matches.
C3_InvalidValueRaisesPubmedMapperError ==
    Terminal /\ ShapedButInvalidYearMonthDay =>
        pc = "raised" /\ error.type = "PubmedMapperError"


\* the recognizer whose shape the input matches first although its values
\* are no calendar date (0 when the input is not of this kind): Year, Month
\* and Day; Year and Month; Year alone; a Medline day range; a Medline
\* month and day range
InvalidAt ==
    IF given.form = "fields" /\ isdigit(given.y)
       /\ (given.m = Absent \/ isdigit(given.m) \/ ExpectedMonth(given.m) # 0)
    THEN IF given.m # Absent /\ isdigit(given.d)
            /\ ~ValidDate(DigitsValue(given.y), ExpectedMonth(given.m), DigitsValue(given.d))
         THEN 1
         ELSE IF given.m # Absent /\ given.d = Absent
                 /\ ~ValidDate(DigitsValue(given.y), ExpectedMonth(given.m), 1)
         THEN 2
         ELSE IF given.m = Absent /\ given.s = Absent
                 /\ ~ValidDate(DigitsValue(given.y), 1, 1)
         THEN 4
         ELSE 0
    ELSE IF given.form \in {"Y M D-D", "Y M D-M D"}
            /\ AbbreviationMonth(given.m) # 0 /\ Len(given.m2) = 3
            /\ ~ValidDate(DigitsValue(given.y), AbbreviationMonth(given.m),
                          DigitsValue(given.d))
    THEN IF given.form = "Y M D-D" THEN 7 ELSE 10
    ELSE 0

\* C4: a recognizer that matches the shape of the input but gets values
\* that are no calendar date ends the cascade: parse_pubdate fails at that
\* recognizer, no later recognizer is called and no date is returned.
C4_InvalidValueStopsCascade ==
    InvalidAt # 0 =>
        /\ Len(called) <= InvalidAt
        /\ pubdate.kind = "None"
        /\ pc \notin {"after_loop", "returned"}
        /\ Terminal => pc = "raised" /\ Len(called) = InvalidAt

\* Year 2014, Month Jun, Day 32 has failed in the first recognizer
C4_Witness ==
    /\ pc = "raised"
    /\ called = <<"PubdateParserYearMonthDay">>
    /\ given.y = <<"2","0","1","4">>
    /\ given.m = <<"J","u","n">>
    /\ given.d = <<"3","2">>

\* the failing call converted a text that is not a number
RaisedByConversion ==
    \/ Len(called) \in 1..4 /\ ~isdigit(element.Year)
    \/ Len(called) = 1 /\ ~isdigit(element.Day)

\* C5: a recognizer raises only for values that are no calendar date; an
\* unknown month or season name or a non-numeric Year or Day makes it
\* return None, so neither a KeyError nor a conversion error leaves it.
C5_RecognizersRaiseOnlyOnInvalidDate ==
    pc = "raised" /\ error.type # "PubmedMapperError" =>
        error.type = "ValueError" /\ ~RaisedByConversion

\* C6: in the structured recognizers a Month written as a numeral, with
\* or without a leading zero, or as an English abbreviation in any letter
\* case names the same month: with a Year and a valid Day (or none) the
\* date returned has that month, the Year and the Day (or day 1).
C6_NumericAndNamedMonthAgree ==
    ( /\ Terminal
      /\ given.form = "fields"
      /\ isdigit(given.y)
      /\ given.m # Absent
      /\ ExpectedMonth(given.m) \in 1..12
      /\ given.d = Absent \/ isdigit(given.d)
      /\ ValidDate(DigitsValue(given.y), ExpectedMonth(given.m),
                   IF given.d = Absent THEN 1 ELSE DigitsValue(given.d)) )
    => /\ pc = "returned"
       /\ IsDate(DigitsValue(given.y), ExpectedMonth(given.m),
                 IF given.d = Absent THEN 1 ELSE DigitsValue(given.d))

\* Year 2014, Month JUN, Day 15 has given 2014-06-15
C6_Witness ==
    /\ pc = "returned"
    /\ given.form = "fields"
    /\ given.m = <<"J","U","N">>
    /\ given.d = <<"1","5">>
    /\ IsDate(2014, 6, 15)

\* C7: a Medline text whose first month is written Sept is recognized and
\* gives month 9, as the structured Month Sept does.
C7_MedlineSeptIsMonthNine ==
    ( /\ Terminal
      /\ given.form \in {"Y M-M", "Y M D-D", "Y M-Y M", "Y M D-M D"}
      /\ Lower(given.m) = <<"s","e","p","t">>
      /\ ValidDate(DigitsValue(given.y), 9,
                   IF given.d = Absent THEN 1 ELSE DigitsValue(given.d)) )
    => pc = "returned" /\ pubdate.month = 9


SeasonNames ==
    { <<"S","p","r","i","n","g">>, <<"S","u","m","m","e","r">>, <<"F","a","l","l">>,
      <<"A","u","t","u","m","n">>, <<"W","i","n","t","e","r">> }

SeasonRecognizers ==
    { "PubdateParserYearSeason", "PubdateParserMedlineDateYearRangeWithSeason",
      "PubdateParserMedlineDateYearSeasonRange" }

\* the input is one a season recognizer reads: Year and Season without a
\* Month, or a Medline year range followed by a season or a season range
SeasonInput ==
    \/ /\ given.form = "fields"
       /\ isdigit(given.y)
       /\ given.m = Absent
       /\ given.s \in SeasonNames
    \/ /\ given.form \in {"Y-Y S", "Y-Y S-S"}
       /\ ExpectedSeasonMonth(given.s) # 0
       /\ given.suffix \in {<<>>, <<"\n">>}

\* C8: every recognizer that reads a season gives Spring month 4, Summer
\* 7, Fall and Autumn 10, Winter 1, with day 1 and the (first) year of the
\* input: such an input with a valid year is resolved to that date, and a
\* date that comes from a season recognizer is that date.
C8_SeasonMonths ==
    /\ ( Terminal /\ SeasonInput /\ DigitsValue(given.y) \in MINYEAR..MAXYEAR )
       => pc = "returned" /\ IsDate(DigitsValue(given.y), ExpectedSeasonMonth(given.s), 1)
    /\ ( pc = "returned" /\ called[Len(called)] \in SeasonRecognizers )
       => /\ ExpectedSeasonMonth(given.s) \in {1, 4, 7, 10}
          /\ IsDate(DigitsValue(given.y), ExpectedSeasonMonth(given.s), 1)

\* 1976-1977 Fall-Winter style input has given October 1 of the first year
C8_Witness ==
    /\ pc = "returned"
    /\ given.form = "Y-Y S-S"
    /\ given.s = <<"F","a","l","l">>
    /\ given.y2 = <<"1","9","7","7">>
    /\ IsDate(1976, 10, 1)

RangeForms ==
    {"Y M-M", "Y M D-D", "Y M-Y M", "Y-Y", "Y M D-M D", "Y-Y S", "Y-Y S-S"}

\* the month and the day of the start of the range
StartMonth ==
    IF given.m # Absent THEN AbbreviationMonth(given.m)
    ELSE IF given.s # Absent THEN ExpectedSeasonMonth(given.s)
    ELSE 1

StartDay == IF given.d # Absent THEN DigitsValue(given.d) ELSE 1

StartValid ==
    StartMonth # 0 /\ ValidDate(DigitsValue(given.y), StartMonth, StartDay)

\* the second endpoint has the shape of the form (a month of three letters)
\* and the text ends with the form, or with one newline after it
EndShaped == Len(given.m2) \in {0, 3} /\ given.suffix \in {<<>>, <<"\n">>}

\* C9: for every Medline range form the cascade returns the start of the
\* range: the first year, the first month (or the first season's month, or
\* 1), the first day (or 1), whatever the second endpoint is; a date is
\* returned whenever the start is a calendar date.
C9_RangeGivesItsStart ==
    ( Terminal /\ given.form \in RangeForms )
    => /\ pc = "returned" => IsDate(DigitsValue(given.y), StartMonth, StartDay)
       /\ StartValid /\ EndShaped => pc = "returned"

\* a month and day range whose second endpoint names no month and no day
C9_Witness ==
    /\ pc = "returned"
    /\ given.form = "Y M D-M D"
    /\ given.m2 = <<"X","y","z">>
    /\ given.d2 = <<"9","9">>
    /\ IsDate(1976, 8, 28)

\* C10: a Medline text of the form YYYY Mon-Mon DD, a month range with a
\* trailing day, is recognized by the cascade and resolves to a date.
C10_MonthRangeWithDayIsRecognized ==
    ( /\ Terminal
      /\ given.form = "Y M-M D"
      /\ AbbreviationMonth(given.m) # 0
      /\ Len(given.m2) = 3
      /\ ValidDate(DigitsValue(given.y), AbbreviationMonth(given.m), DigitsValue(given.d)) )
    => pc = "returned"

----------------------------------------------------------------------------
(* The order of the recognizers.                                           *)

\* the same date, or the same failure
SameResult(a, b) == a.pc = b.pc /\ a.pubdate = b.pubdate /\ a.exc = b.exc

\* the order leaves the four structured recognizers first and in their order
KeepsStructuredFirst(order) ==
    \A k \in 1..NumStructured : order[k] = PUBDATE_PARSERS[k]

PositionIn(order, parser) == CHOOSE k \in DOMAIN order : order[k] = parser

\* C11 as stated: the outcome of the date cascade does not depend on the order
\* in which the recognizers are tried; under every permuted order the call
\* ends with the date, or the failure, of the documented order.
C11_AnyOrderSameOutcome ==
    Terminal => SameResult(Outcome, parse_pubdate(PUBDATE_PARSERS, element))

\* C11, amended: the outcome does not depend on the order of the MedlineDate
\* recognizers among themselves; under every order that keeps the four
\* structured recognizers first and in their order the call ends with the
\* date, or the failure, of the documented order.
C11_MedlineOrderImmaterial ==
    Terminal /\ KeepsStructuredFirst(pubdate_parsers)
        => SameResult(Outcome, parse_pubdate(PUBDATE_PARSERS, element))

\* a date returned by a MedlineDate recognizer that the order has moved
C11_Witness ==
    /\ pc = "returned"
    /\ KeepsStructuredFirst(pubdate_parsers)
    /\ PositionIn(pubdate_parsers, Outcome.by) # PositionIn(PUBDATE_PARSERS, Outcome.by)
    /\ Len(called) # PositionIn(PUBDATE_PARSERS, Outcome.by)

----------------------------------------------------------------------------
(* The dates returned.                                                     *)

IsDigitChar(c) == c \in Digit

IsAlphaChar(c) == c \in Alpha

\* the recognizers that read a day
DayRecognizers ==
    { "PubdateParserYearMonthDay", "PubdateParserMedlineDateDayRange",
      "PubdateParserMedlineDateMonthDayRange" }

\* the input names no month and no season: no Month and no Season child, and
\* no letter in the MedlineDate text
GivesNoMonthOrSeason ==
    /\ element.Month = Absent
    /\ element.Season = Absent
    /\ SelectSeq(element.MedlineDate, IsAlphaChar) = <<>>

\* the year written in the input: the digits of the Year text, or the first
\* four characters of the MedlineDate text when there is no Year
WrittenYear ==
    IF element.Year # Absent
    THEN DigitsValue(SelectSeq(element.Year, IsDigitChar))
    ELSE DigitsValue(SubSeq(element.MedlineDate, 1, 4))

\* C12: every date parse_pubdate returns is a valid date, month in 1..12 and
\* day in 1..31; its month is 1 when the input names no month and no season,
\* its day is 1 when the recognizer that matched reads no day, and its year
\* is the year written in the input, never a default.
C12_ReturnedDateValidWithDefaults ==
    pc = "returned" =>
        /\ pubdate.kind = "date"
        /\ pubdate.month \in 1..12
        /\ pubdate.day \in 1..31
        /\ pubdate.day <= DaysInMonth(pubdate.year, pubdate.month)
        /\ (GivesNoMonthOrSeason => pubdate.month = 1)
        /\ (Outcome.by \notin DayRecognizers => pubdate.day = 1)
        /\ pubdate.year = WrittenYear

\* a Year with a Day and no Month: the day is not read and the date is the
\* first of January of that year
C12_Witness ==
    /\ pc = "returned"
    /\ GivesNoMonthOrSeason
    /\ element.Day # Absent
    /\ Outcome.by = "PubdateParserYearOnly"
    /\ pubdate.year > 1

----------------------------------------------------------------------------
(* Properties of the affiliation cascade.                                  *)

AuthorTerminal == author_pc \in {"returned", "raised"}

\* the text Affiliation.parse_element was given
affiliation_text == author_element.Affiliation

\* the number of ', ' separators in a text
CommaSpaces(t) == Cardinality({i \in 1..(Len(t) - 1) : t[i] = "," /\ t[i + 1] = " "})

\* no registered recognizer matches the text
MatchesNoGrammar(t) ==
    \A k \in DOMAIN AFFILIATION_PARSERS :
        CallAffiliationParser(AFFILIATION_PARSERS[k], t).kind = "None"

\* C14: for an Affiliation text that matches no registered grammar, and so
\* for every text with fewer than three ', ' separators,
\* Affiliation.parse_element returns None without raising and logs a warning
\* that carries the text; Author.parse_element returns an Author whose
\* affiliation is None, serialized as 'affiliation': null.
C14_UnmatchedAffiliationIsNone ==
    (/\ AuthorTerminal
     /\ affiliation_text # Absent
     /\ (CommaSpaces(affiliation_text) < 3 \/ MatchesNoGrammar(affiliation_text)))
        => /\ author_pc = "returned"
           /\ author_error = ""
           /\ author.kind = "Author"
           /\ author.affiliation = NoAffiliation
           /\ Author_to_dict(author).affiliation.json = "null"
           /\ Len(log) = 1
           /\ log[1].level = "WARNING"
           /\ log[1].arg = affiliation_text

\* an author whose affiliation text has two separators and a final period
C14_Witness ==
    /\ author_pc = "returned"
    /\ CommaSpaces(affiliation_text) = 2
    /\ affiliation_text[Len(affiliation_text)] = "."
    /\ author.kind = "Author"
    /\ log # <<>>

\* C15: for every Affiliation text 'C, U, P Ci, Co.' with exactly three ', '
\* separators, P made of digits and hyphens only, the cascade of
\* Affiliation.parse_element gives college C, university U, city Ci, postal
\* code P and country Co without the final period, address None and
\* province None.
C15_PostcodeBeforeCity ==
    (/\ AuthorTerminal
     /\ author_given.form = "C, U, P Ci, Co."
     /\ WrittenPlain(author_given)
     /\ CommaSpaces(affiliation_text) = 3
     /\ \A k \in DOMAIN author_given.p : author_given.p[k] \in Digit \cup {"-"})
        => /\ author_pc = "returned"
           /\ author.affiliation.kind = "Affiliation"
           /\ author.affiliation.college = author_given.c
           /\ author.affiliation.university = author_given.u
           /\ author.affiliation.city = author_given.ci
           /\ author.affiliation.city_postcode = author_given.p
           /\ author.affiliation.country = author_given.co
           /\ author.affiliation.address = None
           /\ author.affiliation.province = None
           /\ log = <<>>

\* '3rd Clinic, Allen and Hanburys Research Ltd., 65-046 Zielona Gora, U.K.'
C15_Witness ==
    /\ author_pc = "returned"
    /\ author_given.form = "C, U, P Ci, Co."
    /\ WrittenPlain(author_given)
    /\ author_given.c = ThirdClinic
    /\ author_given.p = Postcode65046
    /\ author_given.ci = ZielonaGora
    /\ author_given.co = UK
    /\ author_by = "AffiliationParserCityPostcodeCity"

\* C16: for an Affiliation text 'College, University, City, Province,
\* Country.' without a postal code, such as 'Pharmaceutical Research
\* Department, Allen and Hanburys Research Ltd., Ware, Herts, U.K.',
\* Affiliation.parse_element gives province the fourth clause, city the third
\* clause and postal code None.
C16_ProvinceGrammarResolved ==
    (/\ AuthorTerminal
     /\ author_given.form = "C, U, Ci, Pr, Co."
     /\ WrittenPlain(author_given))
        => /\ author_pc = "returned"
           /\ author.affiliation.kind = "Affiliation"
           /\ author.affiliation.province = author_given.pr
           /\ author.affiliation.city = author_given.ci
           /\ author.affiliation.city_postcode = None

\* the same clauses written without white space around them
Trimmed(g) == [g EXCEPT !.lead = Absent, !.trail = Absent]

\* C17: the Affiliation text is trimmed before it is given to the
\* recognizers: a text with white space before or after it is resolved to the
\* same result as the text without it.
C17_WhiteSpaceAroundTextIsTrimmed ==
    AuthorTerminal /\ author_given.kind = "text"
        => LET trimmed == parse_affiliation(AFFILIATION_PARSERS,
                                            AuthorElement(Trimmed(author_given)))
           IN  /\ author_pc = "returned"
               /\ author.affiliation = trimmed.affiliation
               /\ author_by = trimmed.by

\* the six recognizer classes of the module, registered or not
AffiliationRecognizers ==
    {AFFILIATION_PARSERS[k] : k \in DOMAIN AFFILIATION_PARSERS}
    \cup {"AffiliationParserCityProvince"}

\* the pattern of a recognizer class
PatternOf(parser) ==
    CASE parser = "AffiliationParserStreet" -> pattern_Street
      [] parser = "AffiliationParserStreetNumberCommaStreet" -> pattern_StreetNumberCommaStreet
      [] parser = "AffiliationParserCityCommaCityPostcode" -> pattern_CityCommaCityPostcode
      [] parser = "AffiliationParserCityPostcodeCity" -> pattern_CityPostcodeCity
      [] parser = "AffiliationParserCityCityPostcode" -> pattern_CityCityPostcode
      [] parser = "AffiliationParserCityProvince" -> pattern_CityProvince

\* C18: every affiliation recognizer matches the whole text, from its first
\* character to its last, or returns None: a recognizer that returns a record
\* was given a text whose last character is the final period of the grammar,
\* and its match runs from the first character to the end of the text.
C18_RecognizersMatchWholeText ==
    AuthorTerminal /\ affiliation_text # Absent
        => \A parser \in AffiliationRecognizers :
              CallAffiliationParser(parser, affiliation_text).kind = "Affiliation"
                  => LET match == aff_search(PatternOf(parser), affiliation_text)
                     IN  /\ match.matched
                         /\ \E n \in DOMAIN match.groups : match.groups[n].start = 1
                         /\ match.end = Len(affiliation_text) + 1
                         /\ affiliation_text[Len(affiliation_text)] = "."

\* the text is written 'Institute, College, University, Street, Postcode
\* City, Country.' and the street recognizer matches it
StreetGrammarText ==
    /\ author_given.form = "I, C, U, St, P Ci, Co."
    /\ AffiliationParserStreet(affiliation_text).kind = "Affiliation"

\* C19: the street recognizers are tried before the city and postcode ones:
\* every text that matches the street grammar 'Institute, College,
\* University, Street, Postcode City, Country.' is resolved by
\* AffiliationParserStreet, with address its street clause, although the
\* postcode-before-city recognizer matches the same text too, and would give
\* address None with the leading clauses merged into college.
C19_StreetGrammarTriedFirst ==
    AuthorTerminal /\ StreetGrammarText
        => /\ author_pc = "returned"
           /\ author_by = "AffiliationParserStreet"
           /\ author.affiliation.address = author_given.st
           /\ author.affiliation.college = author_given.c
           /\ LET laxer == AffiliationParserCityPostcodeCity(affiliation_text)
              IN  /\ laxer.kind = "Affiliation"
                  /\ laxer.address = None
                  /\ laxer.college = author_given.lead \o author_given.i \o CS
                                     \o author_given.c \o CS \o author_given.u
                  /\ laxer.university = author_given.st

\* 'Institute of Health Sciences, 3rd Clinic, University of Bonn, Zyty 28 St.,
\* 65-046 Zielona Gora, Germany.'
C19_Witness ==
    /\ author_pc = "returned"
    /\ StreetGrammarText
    /\ author_given.c = ThirdClinic
    /\ author_given.st = Zyty28St
    /\ author_given.ci = ZielonaGora
    /\ author.affiliation.address = Zyty28St

----------------------------------------------------------------------------
(* Properties of the runs of single_file and directory.                    *)

\* the articles of the run mapped so far
Mapped == DOMAIN mapped

Returned(i) == mapped[i].kind = "return"

TablesAsWritten ==
    /\ months = MONTHS
    /\ seasons = SEASONS
    /\ pubdate_parsers = PUBDATE_PARSERS
    /\ affiliation_parsers = AFFILIATION_PARSERS

Skipped(i) ==
    \E k \in DOMAIN log :
        /\ log[k].level = "ERROR"
        /\ log[k].msg = "cannot parse %s"
        /\ log[k].arg = articles[i].PMID

\* C20: a run of single_file or directory is never ended by the failure of
\* one article: the run comes to its end only with every article of the input
\* mapped, each one either written to the output or skipped and logged.
C20_FailureNeverAbortsBatch ==
    /\ batch_pc # "crashed"
    /\ batch_pc = "done" =>
         /\ Len(mapped) = Len(articles)
         /\ \A i \in Mapped : Returned(i) \/ Skipped(i)


----------------------------------------------------------------------------
(* The MedlineDate patterns against each other.                            *)

\* the recognizers of PUBDATE_PARSERS that read the MedlineDate text
MedlineRecognizers ==
    {PUBDATE_PARSERS[k] : k \in (NumStructured + 1)..Len(PUBDATE_PARSERS)}

\* the pattern attribute of the recognizer's class
PubdatePatternOf(parser) ==
    CASE parser = "PubdateParserMedlineDateYearOnly" -> pattern_YearOnly
      [] parser = "PubdateParserMedlineDateMonthRange" -> pattern_MonthRange
      [] parser = "PubdateParserMedlineDateDayRange" -> pattern_DayRange
      [] parser = "PubdateParserMedlineDateMonthRangeCrossYear" -> pattern_MonthRangeCrossYear
      [] parser = "PubdateParserMedlineDateRangeYear" -> pattern_RangeYear
      [] parser = "PubdateParserMedlineDateMonthDayRange" -> pattern_MonthDayRange
      [] parser = "PubdateParserMedlineDateYearRangeWithSeason" -> pattern_YearRangeWithSeason
      [] parser = "PubdateParserMedlineDateYearSeasonRange" -> pattern_YearSeasonRange

\* the Medline recognizers whose pattern matches the MedlineDate text of el
MatchingMedline(el) ==
    {p \in MedlineRecognizers : search(PubdatePatternOf(p), el.MedlineDate).matched}

\* the Medline recognizers that return a date for el
DatingMedline(el) ==
    {p \in MedlineRecognizers : CallParser(p, el).kind = "date"}

\* C21: the MedlineDate text of the element in hand is matched by the pattern
\* of at most one Medline recognizer, and at most one Medline recognizer
\* returns a date for the element.
C21_MedlinePatternsExclusive ==
    /\ Cardinality(MatchingMedline(element)) <= 1
    /\ Cardinality(DatingMedline(element)) <= 1

\* a year range with a season range, whose text starts like a year range and
\* like a year range with one season, resolved by its own recognizer alone
C21_Witness ==
    /\ pc = "returned"
    /\ given.form = "Y-Y S-S"
    /\ MatchingMedline(element) = {"PubdateParserMedlineDateYearSeasonRange"}
    /\ DatingMedline(element) = {"PubdateParserMedlineDateYearSeasonRange"}


C23_StateStaysInPostcode ==
    (/\ AuthorTerminal
     /\ author_given.form = "C, U, Ci, Pr P, Co."
     /\ WrittenPlain(author_given))
        => /\ author_pc = "returned"
           /\ author_by = "AffiliationParserCityCommaCityPostcode"
           /\ author.affiliation =
                Affiliation(author_given.c, author_given.u, None, author_given.ci,
                            author_given.pr \o SP \o author_given.p, None,
                            author_given.co)

\* 'Department of Pharmacy, Allen and Hanburys Research Ltd., Zielona Gora,
\* SC 53113, Germany.'
C23_Witness ==
    /\ author_pc = "returned"
    /\ author_given.form = "C, U, Ci, Pr P, Co."
    /\ WrittenPlain(author_given)
    /\ author_given.ci = ZielonaGora
    /\ author_by = "AffiliationParserCityCommaCityPostcode"
    /\ author.affiliation.city_postcode = SC \o SP \o Postcode53113
    /\ author.affiliation.province = None


\* whether Article.parse_element returns an Article for the element
Succeeds(el) == Article_parse_element(el).kind = "return"

\* the lines of the articles among the first n of the input that
\* Article.parse_element returns an Article for, in the order of the input
RECURSIVE LinesOf(_)
LinesOf(n) ==
    IF n = 0 THEN <<>>
    ELSE TheOne({
           IF result.kind = "return"
           THEN Append(LinesOf(n - 1), Article_to_dict(result.article))
           ELSE LinesOf(n - 1)
           : result \in {Article_parse_element(articles[n])} })

\* C24: the output file holds, at every moment of a run, one line for each
\* article gone through so far whose mapping succeeded, in the order of the
\* input, and nothing for an article whose mapping failed; when the command
\* returns, every article of the input has been gone through.
C24_OneLinePerMappedArticle ==
    /\ outfile = LinesOf(article_idx - 1)
    /\ batch_pc = "done" => article_idx = Len(articles) + 1

\* a run of two articles that returned: the first article failed (a day that
\* is no day of the month) and left nothing, the second has its line
C24_Witness ==
    /\ batch_pc = "done"
    /\ Len(articles) = 2
    /\ ~Succeeds(articles[1])
    /\ articles[1].PMID # Absent
    /\ Succeeds(articles[2])
    /\ Len(outfile) = 1
    /\ outfile[1].pmid = articles[2].PMID
    /\ outfile[1].authors # <<>>


----------------------------------------------------------------------------
(* The structured fields against the MedlineDate.                          *)

\* the month the structured fields name: that of the Month when there is
\* one, else that of the Season when there is one, else January; 0 when the
\* text names none
StructuredMonth ==
    IF element.Month # Absent THEN ExpectedMonth(element.Month)
    ELSE IF element.Season = Absent THEN 1
    ELSE IF element.Season \in SeasonNames THEN ExpectedSeasonMonth(element.Season)
    ELSE 0

\* the day the structured fields name: the Day when there is a Month too,
\* else the first; 0 when the text is no number
StructuredDay ==
    IF element.Month = Absent \/ element.Day = Absent THEN 1
    ELSE IF isdigit(element.Day) THEN DigitsValue(element.Day)
    ELSE 0

\* C25: when the PubDate has a Year, only the structured recognizers are
\* called and the call ends as it would without the MedlineDate; a date
\* returned has the Year, the month of the Month (else of the Season, else 1)
\* and the Day only when there is a Month (else 1), and fields that name a
\* calendar date this way do give it.
C25_StructuredFieldsDecide ==
    (Terminal /\ element.Year # Absent) =>
        /\ Len(called) <= NumStructured
        /\ Outcome = parse_pubdate(pubdate_parsers, [element EXCEPT !.MedlineDate = Absent])
        /\ pc = "returned" =>
             IsDate(DigitsValue(element.Year), StructuredMonth, StructuredDay)
        /\ ( /\ isdigit(element.Year)
             /\ ValidDate(DigitsValue(element.Year), StructuredMonth, StructuredDay) )
           => pc = "returned"

\* Year 2014 and Day 15 without a Month, beside the MedlineDate
\* '1976 Aug 28-Sep 4': the first of January 2014
C25_Witness ==
    /\ pc = "returned"
    /\ element.Year = <<"2","0","1","4">>
    /\ element.Month = Absent
    /\ element.Season = Absent
    /\ element.Day = <<"1","5">>
    /\ element.MedlineDate # Absent
    /\ PubdateParserMedlineDateMonthDayRange(element).kind = "date"
    /\ IsDate(2014, 1, 1)


\* the text t has p at position k
StartsAt(p, t, k) ==
    k + Len(p) - 1 <= Len(t) /\ SubSeq(t, k, k + Len(p) - 1) = p

\* the field of the record that its recognizer reads right after the
\* university clause
AfterUniversity(a, parser) ==
    CASE parser = "AffiliationParserCityPostcodeCity" -> a.city_postcode
      [] parser \in {"AffiliationParserCityCityPostcode",
                     "AffiliationParserCityCommaCityPostcode"} -> a.city
      [] OTHER -> a.address

\* C26: in every record Affiliation.parse_element returns, the university
\* holds no ', ' and is the clause right before the street, city or postcode
\* part, and what the text has before it went whole into the first group: the
\* college for the four recognizers without an institute, and for
\* AffiliationParserStreet the institute, left out of the record, followed by
\* a college of one clause.
C26_SurplusClausesGoToFirstGroup ==
    (author_pc = "returned" /\ author.affiliation.kind = "Affiliation") =>
        LET a    == author.affiliation
            tail == a.university \o CS \o AfterUniversity(a, author_by) \o
                    (IF author_by = "AffiliationParserCityPostcodeCity" THEN SP ELSE <<>>)
        IN  /\ CommaSpaces(a.university) = 0
            /\ IF author_by = "AffiliationParserStreet"
               THEN /\ CommaSpaces(a.college) = 0
                    /\ \E k \in 2..Len(affiliation_text) :
                           /\ StartsAt(CS \o a.college \o CS \o tail, affiliation_text, k)
                           /\ CommaSpaces(affiliation_text) =
                                CommaSpaces(SubSeq(affiliation_text, 1, k - 1)) + 5
               ELSE StartsAt(a.college \o CS \o tail, affiliation_text, 1)

\* 'Collegium Medicum, 3rd Clinic, University of Bonn, 65-046 Bonn, Germany.':
\* one clause more than the postcode-before-city grammar has fields
C26_Witness ==
    /\ author_pc = "returned"
    /\ author_given.form = "X, C, U, P Ci, Co."
    /\ WrittenPlain(author_given)
    /\ author_by = "AffiliationParserCityPostcodeCity"
    /\ author_given.c = ThirdClinic
    /\ author.affiliation.college = CollegiumMedicum \o CS \o ThirdClinic
    /\ author.affiliation.university = author_given.u


\* a field that holds a text
Filled(field) == field # None /\ field # <<>>

StreetRecognizers ==
    {"AffiliationParserStreet", "AffiliationParserStreetNumberCommaStreet"}

\* C27: every record Affiliation.parse_element returns has a college, a
\* university, a city, a postal code and a country that are texts of at
\* least one character, has province None, and has an address, a text too,
\* exactly when one of the two street recognizers produced it.
C27_ReturnedRecordFields ==
    (author_pc = "returned" /\ author.affiliation.kind = "Affiliation") =>
        LET a == author.affiliation
        IN  /\ Filled(a.college)
            /\ Filled(a.university)
            /\ Filled(a.city)
            /\ Filled(a.city_postcode)
            /\ Filled(a.country)
            /\ a.province = None
            /\ a.address # None <=> author_by \in StreetRecognizers
            /\ a.address # None => Filled(a.address)
            /\ author_by \in Range(AFFILIATION_PARSERS)

\* a record of the street number recognizer, and the text had one clause
\* more than its grammar
C27_Witness ==
    /\ author_pc = "returned"
    /\ author_given.form = "X, C, U, N, St, Ci P, Co; E."
    /\ author_by = "AffiliationParserStreetNumberCommaStreet"
    /\ Filled(author.affiliation.address)
    /\ author.affiliation.province = None
    /\ author.affiliation.city = ZielonaGora

============================================================================
